---- MODULE Spec2Model ----
(***************************************************************************)
(* A model of the AVL tree map of src/src/map.rs (AvlTreeMap<K, V>).       *)
(*                                                                         *)
(* Nodes live in a heap that maps addresses to Node records; a Link is an  *)
(* address or None.  Every loop of the source is a recursive operator that *)
(* threads the heap through the same sequence of reads and writes as the   *)
(* code, so that aliasing between the pointers of one function (for        *)
(* instance min_child_parent_ptr == node_ptr in unlink_node) behaves as it *)
(* does in the program.                                                    *)
(***************************************************************************)
EXTENDS Integers, Sequences, FiniteSets, TLC

(***************************************************************************)
(* Bounds of the model.                                                    *)
(***************************************************************************)
MaxKey == 4
MaxVal == 2
DeepKeys == 9
MaxOther == 2
MaxSmallKey == 3
MaxIterKey == 4
MaxNones == 2
MaxOwnKey == 7
MaxSetKey == 3
MaxAscending == 9

Keys == 1..MaxKey
Vals == 1..MaxVal
DeepKeySet == 1..DeepKeys
OtherKeys == 1..MaxOther
SmallKeys == 1..MaxSmallKey
IterKeys == 1..MaxIterKey
OwnKeys == 1..MaxOwnKey
SetKeys == 1..MaxSetKey

Max(a, b) == IF a >= b THEN a ELSE b

\* The heap has room for two maps over the largest key set.
HalfHeap == Max(MaxKey, DeepKeys)
Addrs == 1..(2 * HalfHeap)

(***************************************************************************)
(* Link<K, V> = Option<NodePtr<K, V>>: None is 0, Some(ptr) is the address.*)
(* Option<V> and Option<(K, V)> are sequences of length 0 or 1.            *)
(***************************************************************************)
None == 0
NoneOpt == <<>>
Some(x) == <<x>>

\* The content of an address that holds no node (never allocated, or freed).
Freed == [parent |-> None, left |-> None, right |-> None, height |-> 0, key |-> 0, value |-> 0]

VARIABLES
    root,       \* AvlTreeMap::root
    num_nodes,  \* AvlTreeMap::num_nodes
    heap,       \* the Node behind every NodePtr
    op,         \* the public operation that ran last
    ret,        \* what it returned
    model,      \* the abstract finite map the operations so far denote: a set of <<key, value>>
    second,     \* a second AvlTreeMap in the same heap: its root and num_nodes
    cursor      \* the iterator that borrows or owns the map, and what it has yielded

vars == <<root, num_nodes, heap, op, ret, model, second, cursor>>

\* The map object the methods run on.
Self == [root |-> root, num_nodes |-> num_nodes, heap |-> heap]

IsLive(h, a) == h[a] # Freed

(***************************************************************************)
(* Node::create / Node::destroy.  Box::new returns some unused address;    *)
(* which one is the allocator's business.  This allocator hands out the    *)
(* address numbered like the key when it is unused, else that address in   *)
(* the upper half of the heap, else the lowest unused address, so that     *)
(* equal trees built along different histories are one state.              *)
(***************************************************************************)
Lowest(S) == CHOOSE a \in S : \A b \in S : a <= b

alloc(h, key) ==
    IF key \in Addrs /\ ~IsLive(h, key)
    THEN key
    ELSE IF key + HalfHeap \in Addrs /\ ~IsLive(h, key + HalfHeap)
    THEN key + HalfHeap
    ELSE Lowest({a \in Addrs : ~IsLive(h, a)})

create(h, parent, key, value) ==
    LET ptr == alloc(h, key)
    IN  [heap |-> [h EXCEPT ![ptr] = [parent |-> parent, left |-> None, right |-> None,
                                       height |-> 0, key |-> key, value |-> value]],
         node_ptr |-> ptr]

\* Mutant: the pair is read out of the node, which is not freed.
destroy_keeps_node(h, node_ptr) ==
    [heap |-> h,
     kv |-> <<h[node_ptr].key, h[node_ptr].value>>]

destroy(h, node_ptr) ==
    [heap |-> [h EXCEPT ![node_ptr] = Freed],
     kv |-> <<h[node_ptr].key, h[node_ptr].value>>]

(***************************************************************************)
(* AvlTreeMap::new, is_empty, len, height.                                 *)
(***************************************************************************)
new(h) == [root |-> None, num_nodes |-> 0, heap |-> h]

is_empty(t) == t.root = None

len(t) == t.num_nodes

height(t) == IF t.root = None THEN 0 ELSE t.heap[t.root].height

(***************************************************************************)
(* AvlTreeMap::find and the lookups built on it.                           *)
(***************************************************************************)
\* Mutant: the descent turns right on Less and left on Greater.
RECURSIVE find_loop_swapped(_, _, _)
find_loop_swapped(h, current, key) ==
    IF current = None THEN None
    ELSE IF key = h[current].key THEN current
    ELSE IF key < h[current].key THEN find_loop_swapped(h, h[current].right, key)
    ELSE find_loop_swapped(h, h[current].left, key)

RECURSIVE find_loop(_, _, _)
find_loop(h, current, key) ==
    IF current = None THEN None
    ELSE IF key = h[current].key THEN current
    ELSE IF key < h[current].key THEN find_loop(h, h[current].left, key)
    ELSE find_loop(h, h[current].right, key)

find(t, key) == find_loop(t.heap, t.root, key)

get(t, key) ==
    LET node_ptr == find(t, key)
    IN  IF node_ptr = None THEN NoneOpt ELSE Some(t.heap[node_ptr].value)

get_key_value(t, key) ==
    LET node_ptr == find(t, key)
    IN  IF node_ptr = None THEN NoneOpt
        ELSE Some(<<t.heap[node_ptr].key, t.heap[node_ptr].value>>)

contains_key(t, key) == find(t, key) # None

(***************************************************************************)
(* LinkPtr<K, V>: a pointer to a link, i.e. to the root field of the map   *)
(* or to the left or right field of a node.                                *)
(***************************************************************************)
RootLink == [node |-> None, field |-> "root"]
LeftLink(p) == [node |-> p, field |-> "left"]
RightLink(p) == [node |-> p, field |-> "right"]

ReadLink(t, link_ptr) ==
    IF link_ptr.field = "root" THEN t.root
    ELSE IF link_ptr.field = "left" THEN t.heap[link_ptr.node].left
    ELSE t.heap[link_ptr.node].right

WriteLink(t, link_ptr, value) ==
    IF link_ptr.field = "root" THEN [t EXCEPT !.root = value]
    ELSE IF link_ptr.field = "left" THEN [t EXCEPT !.heap[link_ptr.node].left = value]
    ELSE [t EXCEPT !.heap[link_ptr.node].right = value]

(***************************************************************************)
(* AvlTreeMap::find_insert_pos.                                            *)
(***************************************************************************)
RECURSIVE find_insert_pos_loop(_, _, _, _)
find_insert_pos_loop(t, parent, link_ptr, key) ==
    LET node_ptr == ReadLink(t, link_ptr)
    IN  IF node_ptr = None
        THEN [kind |-> "Vacant", parent |-> parent, link_ptr |-> link_ptr, node_ptr |-> None]
        ELSE IF key = t.heap[node_ptr].key
        THEN [kind |-> "Occupied", parent |-> None, link_ptr |-> RootLink, node_ptr |-> node_ptr]
        ELSE IF key < t.heap[node_ptr].key
        THEN find_insert_pos_loop(t, node_ptr, LeftLink(node_ptr), key)
        ELSE find_insert_pos_loop(t, node_ptr, RightLink(node_ptr), key)

find_insert_pos(t, key) == find_insert_pos_loop(t, None, RootLink, key)

(***************************************************************************)
(* Statements of the source as steps on the map t: Then(t, S) is t after   *)
(* statement S, which reads the fields it needs from the map it is given.  *)
(***************************************************************************)
Then(s, Statement(_)) == Statement(s)

SetRoot(t, link) == [t EXCEPT !.root = link]
SetLeft(t, node_ptr, link) == [t EXCEPT !.heap[node_ptr].left = link]
SetRight(t, node_ptr, link) == [t EXCEPT !.heap[node_ptr].right = link]
SetParent(t, node_ptr, link) == [t EXCEPT !.heap[node_ptr].parent = link]

\* if let Some(mut child_ptr) = link { child_ptr.as_mut().parent = parent; }
SetParentOf(t, link, parent) == IF link = None THEN t ELSE SetParent(t, link, parent)

\* match node_ptr.parent { None => self.root = link,
\*                         Some(parent_ptr) => parent_ptr's link to node_ptr = link }
ReplaceInParent(t, node_ptr, link) ==
    IF t.heap[node_ptr].parent = None THEN SetRoot(t, link)
    ELSE IF t.heap[t.heap[node_ptr].parent].left = node_ptr
    THEN SetLeft(t, t.heap[node_ptr].parent, link)
    ELSE SetRight(t, t.heap[node_ptr].parent, link)

(***************************************************************************)
(* left_height, right_height, adjust_height.                               *)
(***************************************************************************)
left_height(h, node_ptr) ==
    IF h[node_ptr].left = None THEN 0 ELSE h[h[node_ptr].left].height + 1

right_height(h, node_ptr) ==
    IF h[node_ptr].right = None THEN 0 ELSE h[h[node_ptr].right].height + 1

\* Mutant: the height is taken from the left subtree alone.
adjust_height_left_only(h, node_ptr) ==
    [h EXCEPT ![node_ptr].height = left_height(h, node_ptr)]

adjust_height(h, node_ptr) ==
    [h EXCEPT ![node_ptr].height = Max(left_height(h, node_ptr), right_height(h, node_ptr))]

(***************************************************************************)
(* rotate_left, rotate_right.                                              *)
(***************************************************************************)
AdjustHeight(t, node_ptr) == [t EXCEPT !.heap = adjust_height(t.heap, node_ptr)]

\* Mutant: the displaced grandchild keeps its old parent link.
rotate_left_stale_parent(t, node_ptr) ==
    LET right_ptr == t.heap[node_ptr].right
    IN  IF right_ptr = None THEN t
        ELSE Then(Then(Then(Then(Then(Then(Then(t,
             LAMBDA s : SetRight(s, node_ptr, s.heap[right_ptr].left)),
             LAMBDA s : SetParent(s, right_ptr, s.heap[node_ptr].parent)),
             LAMBDA s : ReplaceInParent(s, node_ptr, right_ptr)),
             LAMBDA s : SetLeft(s, right_ptr, node_ptr)),
             LAMBDA s : SetParent(s, node_ptr, right_ptr)),
             LAMBDA s : AdjustHeight(s, node_ptr)),
             LAMBDA s : AdjustHeight(s, right_ptr))

rotate_left(t, node_ptr) ==
    LET right_ptr == t.heap[node_ptr].right
    IN  IF right_ptr = None THEN t
        ELSE Then(Then(Then(Then(Then(Then(Then(Then(t,
             LAMBDA s : SetRight(s, node_ptr, s.heap[right_ptr].left)),
             LAMBDA s : SetParentOf(s, s.heap[right_ptr].left, node_ptr)),
             LAMBDA s : SetParent(s, right_ptr, s.heap[node_ptr].parent)),
             LAMBDA s : ReplaceInParent(s, node_ptr, right_ptr)),
             LAMBDA s : SetLeft(s, right_ptr, node_ptr)),
             LAMBDA s : SetParent(s, node_ptr, right_ptr)),
             LAMBDA s : AdjustHeight(s, node_ptr)),
             LAMBDA s : AdjustHeight(s, right_ptr))

\* Mutant: the height of the demoted node is not recomputed.
rotate_right_keeps_node_height(t, node_ptr) ==
    LET left_ptr == t.heap[node_ptr].left
    IN  IF left_ptr = None THEN t
        ELSE Then(Then(Then(Then(Then(Then(Then(t,
             LAMBDA s : SetLeft(s, node_ptr, s.heap[left_ptr].right)),
             LAMBDA s : SetParentOf(s, s.heap[left_ptr].right, node_ptr)),
             LAMBDA s : SetParent(s, left_ptr, s.heap[node_ptr].parent)),
             LAMBDA s : ReplaceInParent(s, node_ptr, left_ptr)),
             LAMBDA s : SetRight(s, left_ptr, node_ptr)),
             LAMBDA s : SetParent(s, node_ptr, left_ptr)),
             LAMBDA s : AdjustHeight(s, left_ptr))

rotate_right(t, node_ptr) ==
    LET left_ptr == t.heap[node_ptr].left
    IN  IF left_ptr = None THEN t
        ELSE Then(Then(Then(Then(Then(Then(Then(Then(t,
             LAMBDA s : SetLeft(s, node_ptr, s.heap[left_ptr].right)),
             LAMBDA s : SetParentOf(s, s.heap[left_ptr].right, node_ptr)),
             LAMBDA s : SetParent(s, left_ptr, s.heap[node_ptr].parent)),
             LAMBDA s : ReplaceInParent(s, node_ptr, left_ptr)),
             LAMBDA s : SetRight(s, left_ptr, node_ptr)),
             LAMBDA s : SetParent(s, node_ptr, left_ptr)),
             LAMBDA s : AdjustHeight(s, node_ptr)),
             LAMBDA s : AdjustHeight(s, left_ptr))

(***************************************************************************)
(* rebalance_node: returns the map and whether a rotation was made.        *)
(***************************************************************************)
\* Mutant: the inner rotation of the zig-zag case is left out.
rebalance_node_single(t, node_ptr) ==
    LET lh == left_height(t.heap, node_ptr)
        rh == right_height(t.heap, node_ptr)
    IN  IF lh > rh + 1
        THEN [t |-> rotate_right(t, node_ptr), did_rebalance |-> TRUE]
        ELSE IF rh > lh + 1
        THEN [t |-> rotate_left(t, node_ptr), did_rebalance |-> TRUE]
        ELSE [t |-> [t EXCEPT !.heap = adjust_height(t.heap, node_ptr)],
              did_rebalance |-> FALSE]

rebalance_node(t, node_ptr) ==
    LET lh == left_height(t.heap, node_ptr)
        rh == right_height(t.heap, node_ptr)
    IN  IF lh > rh + 1
        THEN LET left_ptr == t.heap[node_ptr].left
                 t1 == IF right_height(t.heap, left_ptr) > left_height(t.heap, left_ptr)
                       THEN rotate_left(t, left_ptr) ELSE t
             IN  [t |-> rotate_right(t1, node_ptr), did_rebalance |-> TRUE]
        ELSE IF rh > lh + 1
        THEN LET right_ptr == t.heap[node_ptr].right
                 t1 == IF left_height(t.heap, right_ptr) > right_height(t.heap, right_ptr)
                       THEN rotate_right(t, right_ptr) ELSE t
             IN  [t |-> rotate_left(t1, node_ptr), did_rebalance |-> TRUE]
        ELSE [t |-> [t EXCEPT !.heap = adjust_height(t.heap, node_ptr)],
              did_rebalance |-> FALSE]

(***************************************************************************)
(* rebalance (to the root) and rebalance_once (stops after a rotation).    *)
(***************************************************************************)
\* Mutant: the walk to the root adjusts the heights and never rotates.
RECURSIVE rebalance_adjusts_only(_, _)
rebalance_adjusts_only(t, current) ==
    IF current = None THEN t
    ELSE rebalance_adjusts_only(AdjustHeight(t, current), t.heap[current].parent)

RECURSIVE rebalance(_, _)
rebalance(t, current) ==
    IF current = None THEN t
    ELSE LET parent == t.heap[current].parent
         IN  rebalance(rebalance_node(t, current).t, parent)

\* Mutant: the walk to the root adjusts the heights and never rotates.
RECURSIVE rebalance_once_adjusts_only(_, _)
rebalance_once_adjusts_only(t, current) ==
    IF current = None THEN t
    ELSE rebalance_once_adjusts_only(AdjustHeight(t, current), t.heap[current].parent)

\* Mutant: the walk stops after the first node, whether or not it was rotated.
rebalance_once_first_node_only(t, current) ==
    IF current = None THEN t
    ELSE rebalance_node(t, current).t

RECURSIVE rebalance_once(_, _)
rebalance_once(t, current) ==
    IF current = None THEN t
    ELSE LET parent == t.heap[current].parent
             r == rebalance_node(t, current)
         IN  IF r.did_rebalance THEN r.t ELSE rebalance_once(r.t, parent)

(***************************************************************************)
(* insert_entry_at_vacant_pos, insert_value_at_occupied_pos, insert.       *)
(***************************************************************************)
\* Mutant: the node count is not raised.
insert_entry_at_vacant_pos_no_count(t, parent, insert_pos, key, value) ==
    LET node_ptr == create(t.heap, parent, key, value).node_ptr
    IN  [t |-> Then(Then(t,
               LAMBDA s : WriteLink([s EXCEPT !.heap = create(s.heap, parent, key, value).heap],
                                    insert_pos, node_ptr)),
               LAMBDA s : IF parent # None THEN rebalance_once(s, parent) ELSE s),
         node_ptr |-> node_ptr]

insert_entry_at_vacant_pos(t, parent, insert_pos, key, value) ==
    LET node_ptr == create(t.heap, parent, key, value).node_ptr
    IN  [t |-> Then(Then(Then(t,
               LAMBDA s : WriteLink([s EXCEPT !.heap = create(s.heap, parent, key, value).heap],
                                    insert_pos, node_ptr)),
               LAMBDA s : IF parent # None THEN rebalance_once(s, parent) ELSE s),
               LAMBDA s : [s EXCEPT !.num_nodes = @ + 1]),
         node_ptr |-> node_ptr]

\* Mutant: the new value is stored and returned, the old one is lost.
insert_value_at_occupied_pos_no_swap(t, node_ptr, value) ==
    [t |-> [t EXCEPT !.heap[node_ptr].value = value],
     value |-> value]

insert_value_at_occupied_pos(t, node_ptr, value) ==
    [t |-> [t EXCEPT !.heap[node_ptr].value = value],
     value |-> t.heap[node_ptr].value]

insert(t, key, value) ==
    LET pos == find_insert_pos(t, key)
    IN  IF pos.kind = "Vacant"
        THEN [t |-> insert_entry_at_vacant_pos(t, pos.parent, pos.link_ptr, key, value).t,
              ret |-> NoneOpt]
        ELSE LET r == insert_value_at_occupied_pos(t, pos.node_ptr, value)
             IN  [t |-> r.t, ret |-> Some(r.value)]

(***************************************************************************)
(* unlink_node.                                                            *)
(***************************************************************************)
\* The walk to the smallest node of the right subtree: <<min_child_parent_ptr, min_child_ptr>>.
\* Mutant: the walk goes right, to the largest node of the right subtree.
RECURSIVE min_child_walk_right(_, _, _)
min_child_walk_right(h, min_child_parent_ptr, min_child_ptr) ==
    IF h[min_child_ptr].right = None
    THEN <<min_child_parent_ptr, min_child_ptr>>
    ELSE min_child_walk_right(h, min_child_ptr, h[min_child_ptr].right)

RECURSIVE min_child_walk(_, _, _)
min_child_walk(h, min_child_parent_ptr, min_child_ptr) ==
    IF h[min_child_ptr].left = None
    THEN <<min_child_parent_ptr, min_child_ptr>>
    ELSE min_child_walk(h, min_child_ptr, h[min_child_ptr].left)

\* The links of unlink_node, up to its call of rebalance: the map with the node unlinked,
\* and the node the rebalancing starts from (None where unlink_node does not rebalance).
unlink_node_links(t, node_ptr) ==
    IF t.heap[node_ptr].right # None
    THEN
    LET w == min_child_walk(t.heap, node_ptr, t.heap[node_ptr].right)
        min_child_parent_ptr == w[1]
        min_child_ptr == w[2]
    IN  [t |-> Then(Then(Then(Then(Then(Then(Then(Then(t,
            \* Smallest child node is stem or leaf, unlink from tree
            LAMBDA s : IF s.heap[min_child_parent_ptr].left = min_child_ptr
                       THEN SetLeft(s, min_child_parent_ptr, s.heap[min_child_ptr].right)
                       ELSE SetRight(s, min_child_parent_ptr, s.heap[min_child_ptr].right)),
            LAMBDA s : SetParentOf(s, s.heap[min_child_ptr].right, s.heap[min_child_ptr].parent)),
            \* Replace node to-unlink by smallest child node
            LAMBDA s : SetLeft(s, min_child_ptr, s.heap[node_ptr].left)),
            LAMBDA s : SetParentOf(s, s.heap[node_ptr].left, min_child_ptr)),
            LAMBDA s : SetRight(s, min_child_ptr, s.heap[node_ptr].right)),
            LAMBDA s : SetParentOf(s, s.heap[node_ptr].right, min_child_ptr)),
            LAMBDA s : SetParent(s, min_child_ptr, s.heap[node_ptr].parent)),
            LAMBDA s : ReplaceInParent(s, node_ptr, min_child_ptr)),
         \* Parent of smallest child node might be out of balance now
         rebalance_from |-> IF min_child_parent_ptr = node_ptr
                            THEN min_child_ptr ELSE min_child_parent_ptr]
    ELSE
    \* Node to-unlink is stem or leaf, unlink from tree
    [t |-> Then(Then(t,
            LAMBDA s : SetParentOf(s, s.heap[node_ptr].left, s.heap[node_ptr].parent)),
            LAMBDA s : ReplaceInParent(s, node_ptr, s.heap[node_ptr].left)),
     \* Parent node might be out of balance now
     rebalance_from |-> t.heap[node_ptr].parent]

unlink_node(t, node_ptr) ==
    rebalance(unlink_node_links(t, node_ptr).t, unlink_node_links(t, node_ptr).rebalance_from)

(***************************************************************************)
(* remove_entry_at_occupied_pos, remove_entry, remove.                     *)
(***************************************************************************)
\* The map after Node::destroy(node_ptr), and the pair it returns.
Destroyed(t, node_ptr) ==
    [t |-> [t EXCEPT !.heap = destroy(t.heap, node_ptr).heap],
     kv |-> destroy(t.heap, node_ptr).kv]

\* Mutant: the node count is not lowered.
remove_entry_at_occupied_pos_no_count(t, node_ptr) ==
    Destroyed(unlink_node(t, node_ptr), node_ptr)

remove_entry_at_occupied_pos(t, node_ptr) ==
    Destroyed(unlink_node([t EXCEPT !.num_nodes = @ - 1], node_ptr), node_ptr)

\* Mutant: the node count is lowered before the key is looked up.
remove_entry_counts_first(t, key) ==
    LET node_ptr == find(t, key)
    IN  IF node_ptr = None
        THEN [t |-> [t EXCEPT !.num_nodes = IF @ > 0 THEN @ - 1 ELSE @], ret |-> NoneOpt]
        ELSE LET r == remove_entry_at_occupied_pos(t, node_ptr)
             IN  [t |-> r.t, ret |-> Some(r.kv)]

remove_entry(t, key) ==
    LET node_ptr == find(t, key)
    IN  IF node_ptr = None
        THEN [t |-> t, ret |-> NoneOpt]
        ELSE LET r == remove_entry_at_occupied_pos(t, node_ptr)
             IN  [t |-> r.t, ret |-> Some(r.kv)]

\* Mutant: the key of the removed pair is returned instead of the value.
remove_returns_key(t, key) ==
    LET r == remove_entry(t, key)
    IN  [t |-> r.t, ret |-> IF r.ret = NoneOpt THEN NoneOpt ELSE Some(r.ret[1][1])]

remove(t, key) ==
    LET r == remove_entry(t, key)
    IN  [t |-> r.t, ret |-> IF r.ret = NoneOpt THEN NoneOpt ELSE Some(r.ret[1][2])]

(***************************************************************************)
(* traverse: the stackless walk.  s is [heap, pre, ino, post, stale]: the  *)
(* heap, the nodes handed to each of the three callbacks so far, in call   *)
(* order, and the nodes of which the walk read a field when they were      *)
(* destroyed already.  post_cb names the post-order callback: "destroy" is *)
(* the closure of clear() and of the drops, "nop" is |_| {}.               *)
(***************************************************************************)
\* unsafe { node_ptr.as_ref() }: the walk reads a field of the node.
as_ref(s, node_ptr) ==
    IF IsLive(s.heap, node_ptr) THEN s ELSE [s EXCEPT !.stale = @ \cup {node_ptr}]

postorder_call(s, node_ptr, post_cb) ==
    LET s1 == [s EXCEPT !.post = Append(@, node_ptr)]
    IN  IF post_cb = "destroy"
        THEN [s1 EXCEPT !.heap = destroy(s1.heap, node_ptr).heap]
        ELSE s1

\* Mutant: the parent and the next direction are read after the post-order callback.
RECURSIVE traverse_loop_reads_after_call(_, _, _, _)
traverse_loop_reads_after_call(s, node_ptr, dir, post_cb) ==
    IF dir = "FromParent"
    THEN IF s.heap[node_ptr].left # None
         THEN traverse_loop_reads_after_call(
                  as_ref([s EXCEPT !.pre = Append(@, node_ptr)], node_ptr),
                  s.heap[node_ptr].left, "FromParent", post_cb)
         ELSE traverse_loop_reads_after_call(
                  as_ref([s EXCEPT !.pre = Append(@, node_ptr)], node_ptr),
                  node_ptr, "FromLeft", post_cb)
    ELSE IF dir = "FromLeft"
    THEN IF s.heap[node_ptr].right # None
         THEN traverse_loop_reads_after_call(
                  as_ref([s EXCEPT !.ino = Append(@, node_ptr)], node_ptr),
                  s.heap[node_ptr].right, "FromParent", post_cb)
         ELSE traverse_loop_reads_after_call(
                  as_ref([s EXCEPT !.ino = Append(@, node_ptr)], node_ptr),
                  node_ptr, "FromRight", post_cb)
    ELSE Then(postorder_call(s, node_ptr, post_cb),
              LAMBDA u :
                  IF u.heap[node_ptr].parent # None
                  THEN traverse_loop_reads_after_call(
                           as_ref(as_ref(u, node_ptr), u.heap[node_ptr].parent),
                           u.heap[node_ptr].parent,
                           IF node_ptr = u.heap[u.heap[node_ptr].parent].left
                           THEN "FromLeft" ELSE "FromRight",
                           post_cb)
                  ELSE as_ref(u, node_ptr))

RECURSIVE traverse_loop(_, _, _, _)
traverse_loop(s, node_ptr, dir, post_cb) ==
    IF dir = "FromParent"
    THEN IF s.heap[node_ptr].left # None
         THEN traverse_loop(as_ref([s EXCEPT !.pre = Append(@, node_ptr)], node_ptr),
                            s.heap[node_ptr].left, "FromParent", post_cb)
         ELSE traverse_loop(as_ref([s EXCEPT !.pre = Append(@, node_ptr)], node_ptr),
                            node_ptr, "FromLeft", post_cb)
    ELSE IF dir = "FromLeft"
    THEN IF s.heap[node_ptr].right # None
         THEN traverse_loop(as_ref([s EXCEPT !.ino = Append(@, node_ptr)], node_ptr),
                            s.heap[node_ptr].right, "FromParent", post_cb)
         ELSE traverse_loop(as_ref([s EXCEPT !.ino = Append(@, node_ptr)], node_ptr),
                            node_ptr, "FromRight", post_cb)
    ELSE IF s.heap[node_ptr].parent # None
    THEN traverse_loop(postorder_call(as_ref(as_ref(s, node_ptr), s.heap[node_ptr].parent),
                                      node_ptr, post_cb),
                       s.heap[node_ptr].parent,
                       IF node_ptr = s.heap[s.heap[node_ptr].parent].left
                       THEN "FromLeft" ELSE "FromRight",
                       post_cb)
    ELSE postorder_call(as_ref(s, node_ptr), node_ptr, post_cb)

\* Mutant: the walk starts as if it came back from the left subtree of the start node.
traverse_starts_from_left(h, start, post_cb) ==
    LET s0 == [heap |-> h, pre |-> <<>>, ino |-> <<>>, post |-> <<>>, stale |-> {}]
    IN  IF start = None THEN s0 ELSE traverse_loop(s0, start, "FromLeft", post_cb)

traverse(h, start, post_cb) ==
    LET s0 == [heap |-> h, pre |-> <<>>, ino |-> <<>>, post |-> <<>>, stale |-> {}]
    IN  IF start = None THEN s0 ELSE traverse_loop(s0, start, "FromParent", post_cb)

(***************************************************************************)
(* clear.                                                                  *)
(***************************************************************************)
\* Mutant: the node count survives the clear.
clear_keeps_count(t) ==
    [root |-> None, num_nodes |-> t.num_nodes, heap |-> traverse(t.heap, t.root, "destroy").heap]

clear(t) ==
    [root |-> None, num_nodes |-> 0, heap |-> traverse(t.heap, t.root, "destroy").heap]

(***************************************************************************)
(* find_first, find_last.                                                  *)
(***************************************************************************)
RECURSIVE leftmost(_, _)
leftmost(h, ptr) == IF h[ptr].left = None THEN ptr ELSE leftmost(h, h[ptr].left)

RECURSIVE rightmost(_, _)
rightmost(h, ptr) == IF h[ptr].right = None THEN ptr ELSE rightmost(h, h[ptr].right)

find_first(t) == IF t.root = None THEN None ELSE leftmost(t.heap, t.root)

find_last(t) == IF t.root = None THEN None ELSE rightmost(t.heap, t.root)

(***************************************************************************)
(* NodeIter: the narrowing range [first, last].  pop_first and pop_last    *)
(* return the iterator, the popped link and whether panic!("Invalid node   *)
(* range") was reached.                                                    *)
(***************************************************************************)
NodeIter_new(first, last) == [first |-> first, last |-> last]

\* The first parent that is reached from a left child; None when the walk falls off the root.
\* Mutant: the walk stops at the first parent, whichever side it is reached from.
up_from_left_first_parent(h, next_ptr) == h[next_ptr].parent

RECURSIVE up_from_left(_, _)
up_from_left(h, next_ptr) ==
    LET parent_ptr == h[next_ptr].parent
    IN  IF parent_ptr = None THEN None
        ELSE IF h[parent_ptr].left = next_ptr THEN parent_ptr
        ELSE up_from_left(h, parent_ptr)

\* Mutant: the walk stops at the first parent, whichever side it is reached from.
up_from_right_first_parent(h, next_ptr) == h[next_ptr].parent

RECURSIVE up_from_right(_, _)
up_from_right(h, next_ptr) ==
    LET parent_ptr == h[next_ptr].parent
    IN  IF parent_ptr = None THEN None
        ELSE IF h[parent_ptr].right = next_ptr THEN parent_ptr
        ELSE up_from_right(h, parent_ptr)

pop_first(h, it) ==
    LET node_ptr == it.first
    IN  IF node_ptr = None
        THEN [it |-> it, node |-> None, panic |-> FALSE]
        ELSE IF it.first = it.last
        THEN [it |-> NodeIter_new(None, None), node |-> node_ptr, panic |-> FALSE]
        ELSE IF h[node_ptr].right # None
        THEN [it |-> [it EXCEPT !.first = leftmost(h, h[node_ptr].right)],
              node |-> node_ptr, panic |-> FALSE]
        ELSE LET next_ptr == up_from_left(h, node_ptr)
             IN  IF next_ptr = None
                 THEN [it |-> it, node |-> None, panic |-> TRUE]
                 ELSE [it |-> [it EXCEPT !.first = next_ptr],
                       node |-> node_ptr, panic |-> FALSE]

pop_last(h, it) ==
    LET node_ptr == it.last
    IN  IF node_ptr = None
        THEN [it |-> it, node |-> None, panic |-> FALSE]
        ELSE IF it.last = it.first
        THEN [it |-> NodeIter_new(None, None), node |-> node_ptr, panic |-> FALSE]
        ELSE IF h[node_ptr].left # None
        THEN [it |-> [it EXCEPT !.last = rightmost(h, h[node_ptr].left)],
              node |-> node_ptr, panic |-> FALSE]
        ELSE LET next_ptr == up_from_right(h, node_ptr)
             IN  IF next_ptr = None
                 THEN [it |-> it, node |-> None, panic |-> TRUE]
                 ELSE [it |-> [it EXCEPT !.last = next_ptr],
                       node |-> node_ptr, panic |-> FALSE]

(***************************************************************************)
(* iter(), keys(), values(), iter_mut(): each is a NodeIter over           *)
(* [find_first(), find_last()], and next() maps the popped node to its     *)
(* (key, value), key or value.                                             *)
(***************************************************************************)
iter(t) == NodeIter_new(find_first(t), find_last(t))

Iter_item(h, node_ptr) == <<h[node_ptr].key, h[node_ptr].value>>
Keys_item(h, node_ptr) == h[node_ptr].key
Values_item(h, node_ptr) == h[node_ptr].value

\* n successive next() calls on a NodeIter: the links they returned, in call order, up to
\* a call that panicked.
RECURSIVE next_calls(_, _, _)
next_calls(h, it, n) ==
    IF n = 0 THEN [links |-> <<>>, panic |-> FALSE]
    ELSE LET r == pop_first(h, it)
         IN  IF r.panic THEN [links |-> <<>>, panic |-> TRUE]
             ELSE LET rest == next_calls(h, r.it, n - 1)
                  IN  [links |-> <<r.node>> \o rest.links, panic |-> rest.panic]

(***************************************************************************)
(* NodeEater: the owning iterator behind into_iter().                      *)
(***************************************************************************)
NodeEater_new(t) == [first |-> find_first(t), last |-> find_last(t)]

\* Mutant: the right child that becomes the root keeps its link to the destroyed parent.
NodeEater_replace_first_keeps_parent(s, node_ptr) ==
    IF s.heap[node_ptr].parent = None
    THEN [heap |-> s.heap, first |-> s.heap[node_ptr].right]
    ELSE Then([s EXCEPT !.heap[s.heap[node_ptr].parent].left = s.heap[node_ptr].right],
              LAMBDA u : IF u.heap[u.heap[node_ptr].parent].left # None
                         THEN [heap |-> [u.heap EXCEPT
                                           ![u.heap[u.heap[node_ptr].parent].left].parent =
                                               u.heap[node_ptr].parent],
                               first |-> u.heap[u.heap[node_ptr].parent].left]
                         ELSE [heap |-> u.heap, first |-> u.heap[node_ptr].parent])

\* The step "replace node with right sub tree" on [heap, first].
NodeEater_replace_first(s, node_ptr) ==
    IF s.heap[node_ptr].parent = None
    THEN \* Current node has no parent, right child becomes root of the tree
         [heap |-> IF s.heap[node_ptr].right # None
                   THEN [s.heap EXCEPT ![s.heap[node_ptr].right].parent = None]
                   ELSE s.heap,
          first |-> s.heap[node_ptr].right]
    ELSE \* Right child becomes parent's left sub tree
         Then([s EXCEPT !.heap[s.heap[node_ptr].parent].left = s.heap[node_ptr].right],
              LAMBDA u : IF u.heap[u.heap[node_ptr].parent].left # None
                         THEN [heap |-> [u.heap EXCEPT
                                           ![u.heap[u.heap[node_ptr].parent].left].parent =
                                               u.heap[node_ptr].parent],
                               first |-> u.heap[u.heap[node_ptr].parent].left]
                         ELSE [heap |-> u.heap, first |-> u.heap[node_ptr].parent])

\* Mutant: the walk down to the smallest node of the sub tree is left out.
NodeEater_pop_first_no_descent(h, e) ==
    IF e.first = None
    THEN [e |-> e, heap |-> h, item |-> NoneOpt]
    ELSE IF e.first = e.last
    THEN [e |-> [first |-> None, last |-> None],
          heap |-> destroy(h, e.first).heap,
          item |-> Some(destroy(h, e.first).kv)]
    ELSE Then(NodeEater_replace_first([heap |-> h, first |-> e.first], e.first),
              LAMBDA s : [e |-> [e EXCEPT !.first = s.first],
                          heap |-> destroy(s.heap, e.first).heap,
                          item |-> Some(destroy(s.heap, e.first).kv)])

NodeEater_pop_first(h, e) ==
    IF e.first = None
    THEN [e |-> e, heap |-> h, item |-> NoneOpt]
    ELSE IF e.first = e.last
    THEN [e |-> [first |-> None, last |-> None],
          heap |-> destroy(h, e.first).heap,
          item |-> Some(destroy(h, e.first).kv)]
    ELSE Then(Then(NodeEater_replace_first([heap |-> h, first |-> e.first], e.first),
              \* Next node is smallest child in sub tree
              LAMBDA s : IF s.first # None
                         THEN [s EXCEPT !.first = leftmost(s.heap, s.first)] ELSE s),
              LAMBDA s : [e |-> [e EXCEPT !.first = s.first],
                          heap |-> destroy(s.heap, e.first).heap,
                          item |-> Some(destroy(s.heap, e.first).kv)])

\* The step "replace node with left sub tree" on [heap, last].
NodeEater_replace_last(s, node_ptr) ==
    IF s.heap[node_ptr].parent = None
    THEN \* Current node has no parent, left child becomes root of the tree
         [heap |-> IF s.heap[node_ptr].left # None
                   THEN [s.heap EXCEPT ![s.heap[node_ptr].left].parent = None]
                   ELSE s.heap,
          last |-> s.heap[node_ptr].left]
    ELSE \* Left child becomes parent's right sub tree
         Then([s EXCEPT !.heap[s.heap[node_ptr].parent].right = s.heap[node_ptr].left],
              LAMBDA u : IF u.heap[u.heap[node_ptr].parent].right # None
                         THEN [heap |-> [u.heap EXCEPT
                                           ![u.heap[u.heap[node_ptr].parent].right].parent =
                                               u.heap[node_ptr].parent],
                               last |-> u.heap[u.heap[node_ptr].parent].right]
                         ELSE [heap |-> u.heap, last |-> u.heap[node_ptr].parent])

\* Mutant: the last remaining node is not recognised, the walk goes on from it.
NodeEater_pop_last_no_end(h, e) ==
    IF e.last = None
    THEN [e |-> e, heap |-> h, item |-> NoneOpt]
    ELSE Then(Then(NodeEater_replace_last([heap |-> h, last |-> e.last], e.last),
              LAMBDA s : IF s.last # None
                         THEN [s EXCEPT !.last = rightmost(s.heap, s.last)] ELSE s),
              LAMBDA s : [e |-> [e EXCEPT !.last = s.last],
                          heap |-> destroy(s.heap, e.last).heap,
                          item |-> Some(destroy(s.heap, e.last).kv)])

NodeEater_pop_last(h, e) ==
    IF e.last = None
    THEN [e |-> e, heap |-> h, item |-> NoneOpt]
    ELSE IF e.last = e.first
    THEN [e |-> [first |-> None, last |-> None],
          heap |-> destroy(h, e.last).heap,
          item |-> Some(destroy(h, e.last).kv)]
    ELSE Then(Then(NodeEater_replace_last([heap |-> h, last |-> e.last], e.last),
              \* Next node is biggest child in sub tree
              LAMBDA s : IF s.last # None
                         THEN [s EXCEPT !.last = rightmost(s.heap, s.last)] ELSE s),
              LAMBDA s : [e |-> [e EXCEPT !.last = s.last],
                          heap |-> destroy(s.heap, e.last).heap,
                          item |-> Some(destroy(s.heap, e.last).kv)])

\* Drop for NodeEater: the nodes that were not consumed are destroyed in post-order.
NodeEater_drop(h, e) == traverse(h, e.first, "destroy").heap

(***************************************************************************)
(* append: `other` is swapped with a new map and consumed by into_iter().  *)
(* t and other share the heap of t.  Returns self and other.               *)
(***************************************************************************)
\* Mutant: an entry whose key self already holds is dropped, self keeping its value.
RECURSIVE append_loop_keeps_values(_, _)
append_loop_keeps_values(t, e) ==
    LET r == NodeEater_pop_first(t.heap, e)
    IN  IF r.item = NoneOpt
        THEN [t EXCEPT !.heap = NodeEater_drop(r.heap, r.e)]
        ELSE IF contains_key([t EXCEPT !.heap = r.heap], r.item[1][1])
        THEN append_loop_keeps_values([t EXCEPT !.heap = r.heap], r.e)
        ELSE append_loop_keeps_values(
                 insert([t EXCEPT !.heap = r.heap], r.item[1][1], r.item[1][2]).t, r.e)

RECURSIVE append_loop(_, _)
append_loop(t, e) ==
    LET r == NodeEater_pop_first(t.heap, e)
    IN  IF r.item = NoneOpt
        THEN [t EXCEPT !.heap = NodeEater_drop(r.heap, r.e)]
        ELSE append_loop(insert([t EXCEPT !.heap = r.heap], r.item[1][1], r.item[1][2]).t, r.e)

append(t, other_map) ==
    LET to_append == [other_map EXCEPT !.heap = t.heap]
        self1 == append_loop(t, NodeEater_new(to_append))
    IN  [t |-> self1, other |-> new(self1.heap)]

(***************************************************************************)
(* entry and the Entry methods.                                            *)
(***************************************************************************)
RECURSIVE entry_loop(_, _, _, _)
entry_loop(t, parent, link_ptr, key) ==
    LET node_ptr == ReadLink(t, link_ptr)
    IN  IF node_ptr = None
        THEN [kind |-> "Vacant", parent |-> parent, insert_pos |-> link_ptr,
              key |-> key, node_ptr |-> None]
        ELSE IF key = t.heap[node_ptr].key
        THEN [kind |-> "Occupied", parent |-> None, insert_pos |-> RootLink,
              key |-> key, node_ptr |-> node_ptr]
        ELSE IF key < t.heap[node_ptr].key
        THEN entry_loop(t, node_ptr, LeftLink(node_ptr), key)
        ELSE entry_loop(t, node_ptr, RightLink(node_ptr), key)

entry(t, key) == entry_loop(t, None, RootLink, key)

\* VacantEntry::insert: returns the map and the node whose value is referred to.
VacantEntry_insert(t, e, value) ==
    insert_entry_at_vacant_pos(t, e.parent, e.insert_pos, e.key, value)

\* Mutant: the value of an occupied entry is replaced.
or_insert_overwrites(t, e, value) ==
    IF e.kind = "Occupied"
    THEN [t |-> insert_value_at_occupied_pos(t, e.node_ptr, value).t, ref |-> value]
    ELSE [t |-> VacantEntry_insert(t, e, value).t,
          ref |-> VacantEntry_insert(t, e, value).t.heap[
                      VacantEntry_insert(t, e, value).node_ptr].value]

\* Entry::or_insert: returns the map and the value the returned reference points at.
or_insert(t, e, value) ==
    IF e.kind = "Occupied"
    THEN [t |-> t, ref |-> t.heap[e.node_ptr].value]
    ELSE LET r == VacantEntry_insert(t, e, value)
         IN  [t |-> r.t, ref |-> r.t.heap[r.node_ptr].value]

OccupiedEntry_insert(t, e, value) == insert_value_at_occupied_pos(t, e.node_ptr, value)

OccupiedEntry_remove(t, e) ==
    LET r == remove_entry_at_occupied_pos(t, e.node_ptr)
    IN  [t |-> r.t, value |-> r.kv[2]]

(***************************************************************************)
(* The state after construction and the public operations.                 *)
(***************************************************************************)
(***************************************************************************)
(* clone_tree: the copy walks the source with a stack of the nodes whose   *)
(* right subtree is still to be copied.  Every node of the copy comes from *)
(* Node::create, which stores height 0.  Returns the heap and the copy.    *)
(***************************************************************************)
\* Node::create(Some(other_node_ptr), child.key.clone(), child.value.clone())
clone_child(h, other_node_ptr, child_ptr) ==
    create(h, other_node_ptr, h[child_ptr].key, h[child_ptr].value)

RECURSIVE clone_tree_loop(_, _, _, _)
clone_tree_loop(h, node_ptr, other_node_ptr, nodes_with_right) ==
    IF h[node_ptr].left # None
    THEN clone_tree_loop(
             [clone_child(h, other_node_ptr, h[node_ptr].left).heap
                  EXCEPT ![other_node_ptr].left =
                             clone_child(h, other_node_ptr, h[node_ptr].left).node_ptr],
             h[node_ptr].left,
             clone_child(h, other_node_ptr, h[node_ptr].left).node_ptr,
             IF h[node_ptr].right # None
             THEN Append(nodes_with_right, <<node_ptr, other_node_ptr>>)
             ELSE nodes_with_right)
    ELSE LET pop == h[node_ptr].right = None /\ nodes_with_right # <<>>
             next_ptr == IF pop THEN nodes_with_right[Len(nodes_with_right)][1] ELSE node_ptr
             other_next_ptr == IF pop THEN nodes_with_right[Len(nodes_with_right)][2]
                               ELSE other_node_ptr
             rest == IF pop THEN SubSeq(nodes_with_right, 1, Len(nodes_with_right) - 1)
                     ELSE nodes_with_right
         IN  IF h[next_ptr].right # None
             THEN clone_tree_loop(
                      [clone_child(h, other_next_ptr, h[next_ptr].right).heap
                           EXCEPT ![other_next_ptr].right =
                                      clone_child(h, other_next_ptr, h[next_ptr].right).node_ptr],
                      h[next_ptr].right,
                      clone_child(h, other_next_ptr, h[next_ptr].right).node_ptr,
                      rest)
             ELSE h

\* Mutant: the copy is the source's root pointer and count, no node is created.
clone_tree_shares_nodes(t) ==
    [heap |-> t.heap, other |-> [root |-> t.root, num_nodes |-> t.num_nodes]]

clone_tree(t) ==
    IF t.root = None
    THEN [heap |-> t.heap, other |-> [root |-> None, num_nodes |-> t.num_nodes]]
    ELSE [heap |-> clone_tree_loop(
                       create(t.heap, None, t.heap[t.root].key, t.heap[t.root].value).heap,
                       t.root,
                       create(t.heap, None, t.heap[t.root].key, t.heap[t.root].value).node_ptr,
                       <<>>),
          other |-> [root |-> create(t.heap, None, t.heap[t.root].key, t.heap[t.root].value).node_ptr,
                     num_nodes |-> t.num_nodes]]

(***************************************************************************)
(* PartialEq::eq and Ord::cmp.  Both walk self.iter() and other.iter().    *)
(* zip() asks the left iterator first and stops when either side is        *)
(* exhausted; all() stops at the first pair that differs.  Iterator::cmp   *)
(* compares the items pairwise, a pair being ordered by key, then value,   *)
(* and the shorter sequence is Less when it is a prefix of the longer.     *)
(* Each returns its answer and whether a next() panicked on the way.       *)
(***************************************************************************)
RECURSIVE zip_all_eq(_, _, _)
zip_all_eq(h, lhs_iter, rhs_iter) ==
    LET lhs == pop_first(h, lhs_iter)
        rhs == pop_first(h, rhs_iter)
    IN  IF lhs.panic THEN [panic |-> TRUE, value |-> FALSE]
        ELSE IF lhs.node = None THEN [panic |-> FALSE, value |-> TRUE]
        ELSE IF rhs.panic THEN [panic |-> TRUE, value |-> FALSE]
        ELSE IF rhs.node = None THEN [panic |-> FALSE, value |-> TRUE]
        ELSE IF Iter_item(h, lhs.node) # Iter_item(h, rhs.node)
        THEN [panic |-> FALSE, value |-> FALSE]
        ELSE zip_all_eq(h, lhs.it, rhs.it)

\* self.len() == self.len() && self.iter().zip(other).all(|(lhs, rhs)| lhs == rhs)
eq(t, other_map) ==
    IF len(t) = len(t)
    THEN zip_all_eq(t.heap, iter(t), iter([other_map EXCEPT !.heap = t.heap]))
    ELSE [panic |-> FALSE, value |-> FALSE]

item_cmp(a, b) ==
    IF a[1] < b[1] THEN "Less" ELSE IF a[1] > b[1] THEN "Greater"
    ELSE IF a[2] < b[2] THEN "Less" ELSE IF a[2] > b[2] THEN "Greater" ELSE "Equal"

RECURSIVE iter_cmp(_, _, _)
iter_cmp(h, lhs_iter, rhs_iter) ==
    LET lhs == pop_first(h, lhs_iter)
        rhs == pop_first(h, rhs_iter)
    IN  IF lhs.panic THEN [panic |-> TRUE, value |-> "Equal"]
        ELSE IF lhs.node = None
        THEN IF rhs.panic THEN [panic |-> TRUE, value |-> "Equal"]
             ELSE IF rhs.node = None THEN [panic |-> FALSE, value |-> "Equal"]
             ELSE [panic |-> FALSE, value |-> "Less"]
        ELSE IF rhs.panic THEN [panic |-> TRUE, value |-> "Equal"]
        ELSE IF rhs.node = None THEN [panic |-> FALSE, value |-> "Greater"]
        ELSE IF item_cmp(Iter_item(h, lhs.node), Iter_item(h, rhs.node)) # "Equal"
        THEN [panic |-> FALSE,
              value |-> item_cmp(Iter_item(h, lhs.node), Iter_item(h, rhs.node))]
        ELSE iter_cmp(h, lhs.it, rhs.it)

\* self.iter().cmp(other.iter())
cmp(t, other_map) == iter_cmp(t.heap, iter(t), iter([other_map EXCEPT !.heap = t.heap]))

(***************************************************************************)
(* find_range and the four bound resolutions.  A bound is Unbounded,       *)
(* Included(key) or Excluded(key).  Each resolution descends from the root *)
(* towards the key and then climbs through the parents until a node        *)
(* satisfies the bound, or runs out of parents.                            *)
(***************************************************************************)
Unbounded == [kind |-> "Unbounded", key |-> 0]
Included(key) == [kind |-> "Included", key |-> key]
Excluded(key) == [kind |-> "Excluded", key |-> key]

\* The first loop: on_equal is what the match does for Ordering::Equal: "break", or the
\* same as for Less ("left") or for Greater ("right").
RECURSIVE bound_descend(_, _, _, _)
bound_descend(h, node_ptr, key, on_equal) ==
    IF key < h[node_ptr].key \/ (key = h[node_ptr].key /\ on_equal = "left")
    THEN IF h[node_ptr].left = None THEN node_ptr
         ELSE bound_descend(h, h[node_ptr].left, key, on_equal)
    ELSE IF key > h[node_ptr].key \/ (key = h[node_ptr].key /\ on_equal = "right")
    THEN IF h[node_ptr].right = None THEN node_ptr
         ELSE bound_descend(h, h[node_ptr].right, key, on_equal)
    ELSE node_ptr

\* The second loop: climb until the test `key <test> node.key` holds.
bound_test(key, test, node_key) ==
    IF test = "<=" THEN key <= node_key
    ELSE IF test = "<" THEN key < node_key
    ELSE IF test = ">=" THEN key >= node_key
    ELSE key > node_key

RECURSIVE bound_ascend(_, _, _, _)
bound_ascend(h, bound, key, test) ==
    IF bound = None THEN None
    ELSE IF bound_test(key, test, h[bound].key) THEN bound
    ELSE bound_ascend(h, h[bound].parent, key, test)

find_start_bound_included(t, key) ==
    IF t.root = None THEN None
    ELSE bound_ascend(t.heap, bound_descend(t.heap, t.root, key, "break"), key, "<=")

find_start_bound_excluded(t, key) ==
    IF t.root = None THEN None
    ELSE bound_ascend(t.heap, bound_descend(t.heap, t.root, key, "right"), key, "<")

find_end_bound_included(t, key) ==
    IF t.root = None THEN None
    ELSE bound_ascend(t.heap, bound_descend(t.heap, t.root, key, "break"), key, ">=")

\* Mutant: the climb stops at a node whose key equals the excluded end key.
find_end_bound_excluded_stops_at_key(t, key) ==
    IF t.root = None THEN None
    ELSE bound_ascend(t.heap, bound_descend(t.heap, t.root, key, "left"), key, ">=")

find_end_bound_excluded(t, key) ==
    IF t.root = None THEN None
    ELSE bound_ascend(t.heap, bound_descend(t.heap, t.root, key, "left"), key, ">")

\* Mutant: the arm for an excluded start above an included end is missing.
is_invalid_range_misses_arm(start_bound, end_bound) ==
    \/ /\ start_bound.kind = "Excluded" /\ end_bound.kind = "Excluded"
       /\ start_bound.key = end_bound.key
    \/ /\ start_bound.kind = "Included" /\ end_bound.kind = "Included"
       /\ start_bound.key > end_bound.key
    \/ /\ start_bound.kind = "Included" /\ end_bound.kind = "Excluded"
       /\ start_bound.key > end_bound.key
    \/ /\ start_bound.kind = "Excluded" /\ end_bound.kind = "Excluded"
       /\ start_bound.key > end_bound.key

\* The match that panics on an invalid range, arm by arm.
is_invalid_range(start_bound, end_bound) ==
    \/ /\ start_bound.kind = "Excluded" /\ end_bound.kind = "Excluded"
       /\ start_bound.key = end_bound.key
    \/ /\ start_bound.kind = "Included" /\ end_bound.kind = "Included"
       /\ start_bound.key > end_bound.key
    \/ /\ start_bound.kind = "Excluded" /\ end_bound.kind = "Included"
       /\ start_bound.key > end_bound.key
    \/ /\ start_bound.kind = "Included" /\ end_bound.kind = "Excluded"
       /\ start_bound.key > end_bound.key
    \/ /\ start_bound.kind = "Excluded" /\ end_bound.kind = "Excluded"
       /\ start_bound.key > end_bound.key

range_first(t, start_bound) ==
    IF start_bound.kind = "Unbounded" THEN find_first(t)
    ELSE IF start_bound.kind = "Included" THEN find_start_bound_included(t, start_bound.key)
    ELSE find_start_bound_excluded(t, start_bound.key)

range_last(t, first, end_bound) ==
    IF first = None THEN None
    ELSE IF end_bound.kind = "Unbounded" THEN find_last(t)
    ELSE IF end_bound.kind = "Included" THEN find_end_bound_included(t, end_bound.key)
    ELSE find_end_bound_excluded(t, end_bound.key)

\* Mutant: a range whose first node lies behind its last node is not taken for empty.
is_empty_range_ends_only(h, first, last) == first = None \/ last = None

is_empty_range(h, first, last) ==
    IF first = None \/ last = None THEN TRUE ELSE h[first].key > h[last].key

\* Mutant: a range whose resolved ends have crossed is not reset to the empty range.
find_range_keeps_crossed_ends(t, start_bound, end_bound) ==
    IF is_invalid_range(start_bound, end_bound)
    THEN [panic |-> TRUE, first |-> None, last |-> None]
    ELSE IF range_first(t, start_bound) = None
            \/ range_last(t, range_first(t, start_bound), end_bound) = None
    THEN [panic |-> FALSE, first |-> None, last |-> None]
    ELSE [panic |-> FALSE,
          first |-> range_first(t, start_bound),
          last |-> range_last(t, range_first(t, start_bound), end_bound)]

find_range(t, start_bound, end_bound) ==
    IF is_invalid_range(start_bound, end_bound)
    THEN [panic |-> TRUE, first |-> None, last |-> None]
    ELSE IF is_empty_range(t.heap, range_first(t, start_bound),
                           range_last(t, range_first(t, start_bound), end_bound))
    THEN [panic |-> FALSE, first |-> None, last |-> None]
    ELSE [panic |-> FALSE,
          first |-> range_first(t, start_bound),
          last |-> range_last(t, range_first(t, start_bound), end_bound)]

\* range() and range_mut(): a NodeIter over the resolved range, or the panic.
range(t, start_bound, end_bound) ==
    [panic |-> find_range(t, start_bound, end_bound).panic,
     node_iter |-> NodeIter_new(find_range(t, start_bound, end_bound).first,
                                find_range(t, start_bound, end_bound).last)]

(***************************************************************************)
(* AvlTreeSet<T> of src/src/map/set.rs: a map from T to ().  A set shares  *)
(* the heap with the other set of an operation.  The lazy iterators of the *)
(* set algebra hold two Iter or two Range; each next() returns the         *)
(* iterators after the call, the Option it yields and whether a            *)
(* pop_first() below it panicked.                                          *)
(***************************************************************************)
\* The value () of every entry of a set.
Unit == 0

AvlTreeSet_insert(t, value) ==
    [t |-> insert(t, value, Unit).t, ret |-> insert(t, value, Unit).ret = NoneOpt]

AvlTreeSet_remove(t, value) ==
    [t |-> remove(t, value).t, ret |-> remove(t, value).ret # NoneOpt]

contains(t, value) == contains_key(t, value)

\* NodeIter::peek_first, and Iter::peek / Range::peek of the set, which map the node to
\* its key.
peek_first(it) == it.first

peek(h, it) == IF peek_first(it) = None THEN NoneOpt ELSE Some(h[peek_first(it)].key)

\* Mutant: the range restarts behind the key instead of at it.
reset_range_start_bound_excluded(t, range_iter, key) ==
    IF is_empty_range(t.heap, find_start_bound_excluded(t, key), range_iter.last)
    THEN NodeIter_new(None, None)
    ELSE NodeIter_new(find_start_bound_excluded(t, key), range_iter.last)

reset_range_start_bound_included(t, range_iter, key) ==
    IF is_empty_range(t.heap, find_start_bound_included(t, key), range_iter.last)
    THEN NodeIter_new(None, None)
    ELSE NodeIter_new(find_start_bound_included(t, key), range_iter.last)

\* An iterator that a next() of the set algebra leaves alone, in the form of a pop.
Kept(it) == [it |-> it, node |-> None, panic |-> FALSE]

\* What a next() returns: the two iterators after the pops it made, and the item.
Iters(lhs_pop, rhs_pop, item) ==
    [u |-> [lhs_iter |-> lhs_pop.it, rhs_iter |-> rhs_pop.it],
     item |-> item, panic |-> lhs_pop.panic \/ rhs_pop.panic]

Ranges(lhs_pop, rhs_pop, item) ==
    [s |-> [lhs_range |-> lhs_pop.it, rhs_range |-> rhs_pop.it],
     item |-> item, panic |-> lhs_pop.panic \/ rhs_pop.panic]

\* The entries a drained iterator yields: x, then the rest.
Cons(x, rest) == [entries |-> <<x>> \o rest.entries, panic |-> rest.panic]

(***************************************************************************)
(* Union.                                                                  *)
(***************************************************************************)
Union_new(lhs, rhs) == [lhs_iter |-> iter(lhs), rhs_iter |-> iter(rhs)]

\* Mutant: on equal heads only the left iterator advances.
Union_next_keeps_rhs(h, u) ==
    IF peek(h, u.lhs_iter) = NoneOpt /\ peek(h, u.rhs_iter) = NoneOpt
    THEN Iters(Kept(u.lhs_iter), Kept(u.rhs_iter), NoneOpt)
    ELSE IF peek(h, u.rhs_iter) = NoneOpt
    THEN Iters(pop_first(h, u.lhs_iter), Kept(u.rhs_iter), peek(h, u.lhs_iter))
    ELSE IF peek(h, u.lhs_iter) = NoneOpt
    THEN Iters(Kept(u.lhs_iter), pop_first(h, u.rhs_iter), peek(h, u.rhs_iter))
    ELSE IF peek(h, u.lhs_iter)[1] <= peek(h, u.rhs_iter)[1]
    THEN Iters(pop_first(h, u.lhs_iter), Kept(u.rhs_iter), peek(h, u.lhs_iter))
    ELSE Iters(Kept(u.lhs_iter), pop_first(h, u.rhs_iter), peek(h, u.rhs_iter))

Union_next(h, u) ==
    IF peek(h, u.lhs_iter) = NoneOpt /\ peek(h, u.rhs_iter) = NoneOpt
    THEN Iters(Kept(u.lhs_iter), Kept(u.rhs_iter), NoneOpt)
    ELSE IF peek(h, u.rhs_iter) = NoneOpt
    THEN Iters(pop_first(h, u.lhs_iter), Kept(u.rhs_iter), peek(h, u.lhs_iter))
    ELSE IF peek(h, u.lhs_iter) = NoneOpt
    THEN Iters(Kept(u.lhs_iter), pop_first(h, u.rhs_iter), peek(h, u.rhs_iter))
    ELSE IF peek(h, u.lhs_iter)[1] < peek(h, u.rhs_iter)[1]
    THEN Iters(pop_first(h, u.lhs_iter), Kept(u.rhs_iter), peek(h, u.lhs_iter))
    ELSE IF peek(h, u.lhs_iter)[1] = peek(h, u.rhs_iter)[1]
    THEN Iters(pop_first(h, u.lhs_iter), pop_first(h, u.rhs_iter), peek(h, u.lhs_iter))
    ELSE Iters(Kept(u.lhs_iter), pop_first(h, u.rhs_iter), peek(h, u.rhs_iter))

\* next() until None, as Debug for Union and collect() do: the values in the order of
\* the calls.
RECURSIVE Union_entries(_, _)
Union_entries(h, u) ==
    IF Union_next(h, u).panic THEN [entries |-> <<>>, panic |-> TRUE]
    ELSE IF Union_next(h, u).item = NoneOpt THEN [entries |-> <<>>, panic |-> FALSE]
    ELSE Cons(Union_next(h, u).item[1], Union_entries(h, Union_next(h, u).u))

(***************************************************************************)
(* Intersection: the side whose head is smaller restarts its range at the  *)
(* head of the other side.                                                 *)
(***************************************************************************)
Intersection_new(lhs, rhs) ==
    [lhs_range |-> range(lhs, Unbounded, Unbounded).node_iter,
     rhs_range |-> range(rhs, Unbounded, Unbounded).node_iter]

RECURSIVE Intersection_next(_, _, _)
Intersection_next(lhs, rhs, s) ==
    IF peek(lhs.heap, s.lhs_range) = NoneOpt \/ peek(rhs.heap, s.rhs_range) = NoneOpt
    THEN Ranges(Kept(s.lhs_range), Kept(s.rhs_range), NoneOpt)
    ELSE IF peek(lhs.heap, s.lhs_range)[1] = peek(rhs.heap, s.rhs_range)[1]
    THEN Ranges(pop_first(lhs.heap, s.lhs_range), pop_first(rhs.heap, s.rhs_range),
                peek(lhs.heap, s.lhs_range))
    ELSE IF peek(lhs.heap, s.lhs_range)[1] < peek(rhs.heap, s.rhs_range)[1]
    THEN Intersection_next(lhs, rhs,
             [s EXCEPT !.lhs_range = reset_range_start_bound_included(
                                         lhs, @, peek(rhs.heap, s.rhs_range)[1])])
    ELSE Intersection_next(lhs, rhs,
             [s EXCEPT !.rhs_range = reset_range_start_bound_included(
                                         rhs, @, peek(lhs.heap, s.lhs_range)[1])])

RECURSIVE Intersection_entries(_, _, _)
Intersection_entries(lhs, rhs, s) ==
    IF Intersection_next(lhs, rhs, s).panic THEN [entries |-> <<>>, panic |-> TRUE]
    ELSE IF Intersection_next(lhs, rhs, s).item = NoneOpt
    THEN [entries |-> <<>>, panic |-> FALSE]
    ELSE Cons(Intersection_next(lhs, rhs, s).item[1],
              Intersection_entries(lhs, rhs, Intersection_next(lhs, rhs, s).s))

(***************************************************************************)
(* Difference: the right range restarts at the left head when it lags.     *)
(***************************************************************************)
Difference_new(lhs, rhs) ==
    [lhs_range |-> range(lhs, Unbounded, Unbounded).node_iter,
     rhs_range |-> range(rhs, Unbounded, Unbounded).node_iter]

\* Mutant: the iteration ends when the right range is exhausted.
RECURSIVE Difference_next_stops_with_rhs(_, _, _)
Difference_next_stops_with_rhs(h, rhs, s) ==
    IF peek(h, s.lhs_range) = NoneOpt \/ peek(h, s.rhs_range) = NoneOpt
    THEN Ranges(Kept(s.lhs_range), Kept(s.rhs_range), NoneOpt)
    ELSE IF peek(h, s.lhs_range)[1] = peek(h, s.rhs_range)[1]
    THEN IF pop_first(h, s.lhs_range).panic \/ pop_first(h, s.rhs_range).panic
         THEN Ranges(pop_first(h, s.lhs_range), pop_first(h, s.rhs_range), NoneOpt)
         ELSE Difference_next_stops_with_rhs(h, rhs,
                  Ranges(pop_first(h, s.lhs_range), pop_first(h, s.rhs_range), NoneOpt).s)
    ELSE IF peek(h, s.lhs_range)[1] < peek(h, s.rhs_range)[1]
    THEN Ranges(pop_first(h, s.lhs_range), Kept(s.rhs_range), peek(h, s.lhs_range))
    ELSE Difference_next_stops_with_rhs(h, rhs,
             [s EXCEPT !.rhs_range = reset_range_start_bound_included(
                                         rhs, @, peek(h, s.lhs_range)[1])])

RECURSIVE Difference_next(_, _, _)
Difference_next(h, rhs, s) ==
    IF peek(h, s.lhs_range) = NoneOpt
    THEN Ranges(Kept(s.lhs_range), Kept(s.rhs_range), NoneOpt)
    ELSE IF peek(h, s.rhs_range) = NoneOpt
    THEN Ranges(pop_first(h, s.lhs_range), Kept(s.rhs_range), peek(h, s.lhs_range))
    ELSE IF peek(h, s.lhs_range)[1] = peek(h, s.rhs_range)[1]
    THEN IF pop_first(h, s.lhs_range).panic \/ pop_first(h, s.rhs_range).panic
         THEN Ranges(pop_first(h, s.lhs_range), pop_first(h, s.rhs_range), NoneOpt)
         ELSE Difference_next(h, rhs,
                  Ranges(pop_first(h, s.lhs_range), pop_first(h, s.rhs_range), NoneOpt).s)
    ELSE IF peek(h, s.lhs_range)[1] < peek(h, s.rhs_range)[1]
    THEN Ranges(pop_first(h, s.lhs_range), Kept(s.rhs_range), peek(h, s.lhs_range))
    ELSE Difference_next(h, rhs,
             [s EXCEPT !.rhs_range = reset_range_start_bound_included(
                                         rhs, @, peek(h, s.lhs_range)[1])])

RECURSIVE Difference_entries(_, _, _)
Difference_entries(h, rhs, s) ==
    IF Difference_next(h, rhs, s).panic THEN [entries |-> <<>>, panic |-> TRUE]
    ELSE IF Difference_next(h, rhs, s).item = NoneOpt
    THEN [entries |-> <<>>, panic |-> FALSE]
    ELSE Cons(Difference_next(h, rhs, s).item[1],
              Difference_entries(h, rhs, Difference_next(h, rhs, s).s))

(***************************************************************************)
(* SymmetricDifference: a merge of two plain iterators.                    *)
(***************************************************************************)
SymmetricDifference_new(lhs, rhs) == [lhs_iter |-> iter(lhs), rhs_iter |-> iter(rhs)]

\* Mutant: on equal heads only the left iterator advances.
RECURSIVE SymmetricDifference_next_keeps_rhs(_, _)
SymmetricDifference_next_keeps_rhs(h, u) ==
    IF peek(h, u.lhs_iter) = NoneOpt /\ peek(h, u.rhs_iter) = NoneOpt
    THEN Iters(Kept(u.lhs_iter), Kept(u.rhs_iter), NoneOpt)
    ELSE IF peek(h, u.rhs_iter) = NoneOpt
    THEN Iters(pop_first(h, u.lhs_iter), Kept(u.rhs_iter), peek(h, u.lhs_iter))
    ELSE IF peek(h, u.lhs_iter) = NoneOpt
    THEN Iters(Kept(u.lhs_iter), pop_first(h, u.rhs_iter), peek(h, u.rhs_iter))
    ELSE IF peek(h, u.lhs_iter)[1] < peek(h, u.rhs_iter)[1]
    THEN Iters(pop_first(h, u.lhs_iter), Kept(u.rhs_iter), peek(h, u.lhs_iter))
    ELSE IF peek(h, u.lhs_iter)[1] = peek(h, u.rhs_iter)[1]
    THEN IF pop_first(h, u.lhs_iter).panic
         THEN Iters(pop_first(h, u.lhs_iter), Kept(u.rhs_iter), NoneOpt)
         ELSE SymmetricDifference_next_keeps_rhs(h,
                  Iters(pop_first(h, u.lhs_iter), Kept(u.rhs_iter), NoneOpt).u)
    ELSE Iters(Kept(u.lhs_iter), pop_first(h, u.rhs_iter), peek(h, u.rhs_iter))

RECURSIVE SymmetricDifference_next(_, _)
SymmetricDifference_next(h, u) ==
    IF peek(h, u.lhs_iter) = NoneOpt /\ peek(h, u.rhs_iter) = NoneOpt
    THEN Iters(Kept(u.lhs_iter), Kept(u.rhs_iter), NoneOpt)
    ELSE IF peek(h, u.rhs_iter) = NoneOpt
    THEN Iters(pop_first(h, u.lhs_iter), Kept(u.rhs_iter), peek(h, u.lhs_iter))
    ELSE IF peek(h, u.lhs_iter) = NoneOpt
    THEN Iters(Kept(u.lhs_iter), pop_first(h, u.rhs_iter), peek(h, u.rhs_iter))
    ELSE IF peek(h, u.lhs_iter)[1] < peek(h, u.rhs_iter)[1]
    THEN Iters(pop_first(h, u.lhs_iter), Kept(u.rhs_iter), peek(h, u.lhs_iter))
    ELSE IF peek(h, u.lhs_iter)[1] = peek(h, u.rhs_iter)[1]
    THEN IF pop_first(h, u.lhs_iter).panic \/ pop_first(h, u.rhs_iter).panic
         THEN Iters(pop_first(h, u.lhs_iter), pop_first(h, u.rhs_iter), NoneOpt)
         ELSE SymmetricDifference_next(h,
                  Iters(pop_first(h, u.lhs_iter), pop_first(h, u.rhs_iter), NoneOpt).u)
    ELSE Iters(Kept(u.lhs_iter), pop_first(h, u.rhs_iter), peek(h, u.rhs_iter))

RECURSIVE SymmetricDifference_entries(_, _)
SymmetricDifference_entries(h, u) ==
    IF SymmetricDifference_next(h, u).panic THEN [entries |-> <<>>, panic |-> TRUE]
    ELSE IF SymmetricDifference_next(h, u).item = NoneOpt
    THEN [entries |-> <<>>, panic |-> FALSE]
    ELSE Cons(SymmetricDifference_next(h, u).item[1],
              SymmetricDifference_entries(h, SymmetricDifference_next(h, u).u))

(***************************************************************************)
(* is_disjoint, is_subset, is_superset: each returns its answer and        *)
(* whether an iterator below it panicked.                                  *)
(***************************************************************************)
is_disjoint(t, other_set) ==
    [panic |-> Intersection_next(t, other_set, Intersection_new(t, other_set)).panic,
     value |-> Intersection_next(t, other_set, Intersection_new(t, other_set)).item = NoneOpt]

\* for v in self { if !other.contains(v) { return false; } } true
RECURSIVE is_subset_loop(_, _, _)
is_subset_loop(h, it, other_set) ==
    IF pop_first(h, it).panic THEN [panic |-> TRUE, value |-> FALSE]
    ELSE IF pop_first(h, it).node = None THEN [panic |-> FALSE, value |-> TRUE]
    ELSE IF ~contains(other_set, h[pop_first(h, it).node].key)
    THEN [panic |-> FALSE, value |-> FALSE]
    ELSE is_subset_loop(h, pop_first(h, it).it, other_set)

\* Mutant: the answer is that of the comparison of the lengths.
is_subset_by_len(t, other_set) ==
    [panic |-> FALSE, value |-> ~(len(t) > len(other_set))]

is_subset(t, other_set) ==
    IF len(t) > len(other_set) THEN [panic |-> FALSE, value |-> FALSE]
    ELSE is_subset_loop(t.heap, iter(t), other_set)

is_superset(t, other_set) == is_subset(other_set, t)

(***************************************************************************)
(* Tree<K> of src/src/tree.rs, the key-only tree that lib.rs exports as    *)
(* AvlTreeMap.  Its nodes live in the same heap and have no value.  The    *)
(* operators follow tree.rs statement by statement, as those above follow  *)
(* map.rs.                                                                 *)
(***************************************************************************)
Tree_create(h, parent, key) ==
    [heap |-> [h EXCEPT ![alloc(h, key)] = [parent |-> parent, left |-> None, right |-> None,
                                            height |-> 0, key |-> key]],
     node_ptr |-> alloc(h, key)]

Tree_destroy(h, node_ptr) == [h EXCEPT ![node_ptr] = Freed]

Tree_new(h) == [root |-> None, num_nodes |-> 0, heap |-> h]

Tree_height(t) == IF t.root = None THEN 0 ELSE t.heap[t.root].height

RECURSIVE Tree_find_loop(_, _, _)
Tree_find_loop(h, current, key) ==
    IF current = None THEN None
    ELSE IF key = h[current].key THEN current
    ELSE IF key < h[current].key THEN Tree_find_loop(h, h[current].left, key)
    ELSE Tree_find_loop(h, h[current].right, key)

Tree_find(t, key) == Tree_find_loop(t.heap, t.root, key)

\* find_insert_pos: NoneOpt when the key is stored, else Some(<<parent, link_ptr>>).
RECURSIVE Tree_find_insert_pos_loop(_, _, _, _)
Tree_find_insert_pos_loop(t, parent, link_ptr, key) ==
    IF ReadLink(t, link_ptr) = None THEN Some(<<parent, link_ptr>>)
    ELSE IF key = t.heap[ReadLink(t, link_ptr)].key THEN NoneOpt
    ELSE IF key < t.heap[ReadLink(t, link_ptr)].key
    THEN Tree_find_insert_pos_loop(t, ReadLink(t, link_ptr),
                                   LeftLink(ReadLink(t, link_ptr)), key)
    ELSE Tree_find_insert_pos_loop(t, ReadLink(t, link_ptr),
                                   RightLink(ReadLink(t, link_ptr)), key)

Tree_find_insert_pos(t, key) == Tree_find_insert_pos_loop(t, None, RootLink, key)

\* left_height and right_height return the stored height of the child, without the + 1
\* that adjust_height adds.
Tree_left_height(h, node_ptr) ==
    IF h[node_ptr].left = None THEN 0 ELSE h[h[node_ptr].left].height

Tree_right_height(h, node_ptr) ==
    IF h[node_ptr].right = None THEN 0 ELSE h[h[node_ptr].right].height

Tree_adjust_height(t, node_ptr) ==
    [t EXCEPT !.heap[node_ptr].height =
        Max(IF t.heap[node_ptr].left = None THEN 0
            ELSE t.heap[t.heap[node_ptr].left].height + 1,
            IF t.heap[node_ptr].right = None THEN 0
            ELSE t.heap[t.heap[node_ptr].right].height + 1)]

Tree_rotate_left(t, node_ptr) ==
    LET right_ptr == t.heap[node_ptr].right
    IN  IF right_ptr = None THEN t
        ELSE Then(Then(Then(Then(Then(Then(Then(Then(t,
             LAMBDA s : SetRight(s, node_ptr, s.heap[right_ptr].left)),
             LAMBDA s : SetParentOf(s, s.heap[right_ptr].left, node_ptr)),
             LAMBDA s : SetParent(s, right_ptr, s.heap[node_ptr].parent)),
             LAMBDA s : ReplaceInParent(s, node_ptr, right_ptr)),
             LAMBDA s : SetLeft(s, right_ptr, node_ptr)),
             LAMBDA s : SetParent(s, node_ptr, right_ptr)),
             LAMBDA s : Tree_adjust_height(s, node_ptr)),
             LAMBDA s : Tree_adjust_height(s, right_ptr))

Tree_rotate_right(t, node_ptr) ==
    LET left_ptr == t.heap[node_ptr].left
    IN  IF left_ptr = None THEN t
        ELSE Then(Then(Then(Then(Then(Then(Then(Then(t,
             LAMBDA s : SetLeft(s, node_ptr, s.heap[left_ptr].right)),
             LAMBDA s : SetParentOf(s, s.heap[left_ptr].right, node_ptr)),
             LAMBDA s : SetParent(s, left_ptr, s.heap[node_ptr].parent)),
             LAMBDA s : ReplaceInParent(s, node_ptr, left_ptr)),
             LAMBDA s : SetRight(s, left_ptr, node_ptr)),
             LAMBDA s : SetParent(s, node_ptr, left_ptr)),
             LAMBDA s : Tree_adjust_height(s, node_ptr)),
             LAMBDA s : Tree_adjust_height(s, left_ptr))

\* rebalance_node: returns the tree and whether a rotation was made.
Tree_rebalance_node(t, node_ptr) ==
    IF Tree_left_height(t.heap, node_ptr) > Tree_right_height(t.heap, node_ptr) + 1
    THEN [t |-> Tree_rotate_right(
                    IF Tree_right_height(t.heap, t.heap[node_ptr].left)
                           > Tree_left_height(t.heap, t.heap[node_ptr].left)
                    THEN Tree_rotate_left(t, t.heap[node_ptr].left) ELSE t,
                    node_ptr),
          did_rebalance |-> TRUE]
    ELSE IF Tree_right_height(t.heap, node_ptr) > Tree_left_height(t.heap, node_ptr) + 1
    THEN [t |-> Tree_rotate_left(
                    IF Tree_left_height(t.heap, t.heap[node_ptr].right)
                           > Tree_right_height(t.heap, t.heap[node_ptr].right)
                    THEN Tree_rotate_right(t, t.heap[node_ptr].right) ELSE t,
                    node_ptr),
          did_rebalance |-> TRUE]
    ELSE [t |-> Tree_adjust_height(t, node_ptr), did_rebalance |-> FALSE]

RECURSIVE Tree_rebalance(_, _)
Tree_rebalance(t, current) ==
    IF current = None THEN t
    ELSE Tree_rebalance(Tree_rebalance_node(t, current).t, t.heap[current].parent)

RECURSIVE Tree_rebalance_once(_, _)
Tree_rebalance_once(t, current) ==
    IF current = None THEN t
    ELSE IF Tree_rebalance_node(t, current).did_rebalance
    THEN Tree_rebalance_node(t, current).t
    ELSE Tree_rebalance_once(Tree_rebalance_node(t, current).t, t.heap[current].parent)

RECURSIVE Tree_min_child_walk(_, _, _)
Tree_min_child_walk(h, min_child_parent_ptr, min_child_ptr) ==
    IF h[min_child_ptr].left = None
    THEN <<min_child_parent_ptr, min_child_ptr>>
    ELSE Tree_min_child_walk(h, min_child_ptr, h[min_child_ptr].left)

Tree_unlink_node(t, node_ptr) ==
    IF t.heap[node_ptr].right # None
    THEN
    LET w == Tree_min_child_walk(t.heap, node_ptr, t.heap[node_ptr].right)
        min_child_parent_ptr == w[1]
        min_child_ptr == w[2]
        rebalance_from == IF min_child_parent_ptr = node_ptr
                          THEN min_child_ptr ELSE min_child_parent_ptr
    IN  Tree_rebalance(Then(Then(Then(Then(Then(Then(Then(Then(t,
            LAMBDA s : IF s.heap[min_child_parent_ptr].left = min_child_ptr
                       THEN SetLeft(s, min_child_parent_ptr, s.heap[min_child_ptr].right)
                       ELSE SetRight(s, min_child_parent_ptr, s.heap[min_child_ptr].right)),
            LAMBDA s : SetParentOf(s, s.heap[min_child_ptr].right, s.heap[min_child_ptr].parent)),
            LAMBDA s : SetLeft(s, min_child_ptr, s.heap[node_ptr].left)),
            LAMBDA s : SetParentOf(s, s.heap[node_ptr].left, min_child_ptr)),
            LAMBDA s : SetRight(s, min_child_ptr, s.heap[node_ptr].right)),
            LAMBDA s : SetParentOf(s, s.heap[node_ptr].right, min_child_ptr)),
            LAMBDA s : SetParent(s, min_child_ptr, s.heap[node_ptr].parent)),
            LAMBDA s : ReplaceInParent(s, node_ptr, min_child_ptr)),
        rebalance_from)
    ELSE
    Then(Then(t,
        LAMBDA s : SetParentOf(s, s.heap[node_ptr].left, s.heap[node_ptr].parent)),
        LAMBDA s : IF s.heap[node_ptr].parent = None
                   THEN SetRoot(s, s.heap[node_ptr].left)
                   ELSE Tree_rebalance(
                            IF s.heap[s.heap[node_ptr].parent].left = node_ptr
                            THEN SetLeft(s, s.heap[node_ptr].parent, s.heap[node_ptr].left)
                            ELSE SetRight(s, s.heap[node_ptr].parent, s.heap[node_ptr].left),
                            s.heap[node_ptr].parent))

\* insert: the new node is linked in, the count raised and rebalance_once run from the
\* parent.  Returns the tree and the bool.
Tree_insert(t, key) ==
    IF Tree_find_insert_pos(t, key) = NoneOpt THEN [t |-> t, ret |-> FALSE]
    ELSE [t |-> Then(Then(Then(t,
               LAMBDA s : WriteLink(
                   [s EXCEPT !.heap = Tree_create(s.heap, Tree_find_insert_pos(t, key)[1][1],
                                                  key).heap],
                   Tree_find_insert_pos(t, key)[1][2],
                   Tree_create(t.heap, Tree_find_insert_pos(t, key)[1][1], key).node_ptr)),
               LAMBDA s : [s EXCEPT !.num_nodes = @ + 1]),
               LAMBDA s : Tree_rebalance_once(s, Tree_find_insert_pos(t, key)[1][1])),
          ret |-> TRUE]

Tree_remove(t, key) ==
    IF Tree_find(t, key) = None THEN [t |-> t, ret |-> FALSE]
    ELSE [t |-> Then(Then(Then(t,
               LAMBDA s : Tree_unlink_node(s, Tree_find(t, key))),
               LAMBDA s : [s EXCEPT !.heap = Tree_destroy(s.heap, Tree_find(t, key))]),
               LAMBDA s : [s EXCEPT !.num_nodes = @ - 1]),
          ret |-> TRUE]

\* No second map, and no iterator.
NoMap == [root |-> None, num_nodes |-> 0]
NoIter == [kind |-> "none", first |-> None, last |-> None,
           front |-> <<>>, back |-> <<>>, nones |-> 0,
           start_bound |-> Unbounded, end_bound |-> Unbounded]

Init ==
    /\ root = None
    /\ num_nodes = 0
    /\ heap = [a \in Addrs |-> Freed]
    /\ op = "new"
    /\ ret = NoneOpt
    /\ model = {}
    /\ second = NoMap
    /\ cursor = NoIter

Store(t) ==
    /\ root' = t.root
    /\ num_nodes' = t.num_nodes
    /\ heap' = t.heap

Insert(key, value) ==
    LET r == insert(Self, key, value)
    IN  /\ Store(r.t)
        /\ op' = "insert"
        /\ ret' = r.ret
        /\ model' = {e \in model : e[1] # key} \cup {<<key, value>>}
        /\ UNCHANGED <<second, cursor>>

Remove(key) ==
    LET r == remove(Self, key)
    IN  /\ Store(r.t)
        /\ op' = "remove"
        /\ ret' = r.ret
        /\ model' = {e \in model : e[1] # key}
        /\ UNCHANGED <<second, cursor>>

RemoveEntry(key) ==
    LET r == remove_entry(Self, key)
    IN  /\ Store(r.t)
        /\ op' = "remove_entry"
        /\ ret' = r.ret
        /\ model' = {e \in model : e[1] # key}
        /\ UNCHANGED <<second, cursor>>

Clear ==
    /\ Store(clear(Self))
    /\ op' = "clear"
    /\ ret' = NoneOpt
    /\ model' = {}
    /\ UNCHANGED <<second, cursor>>

\* The map handed to append as `other`: built by inserting, in the order of ks, the keys
\* of ks with the value `value` into a new map that shares the heap.
RECURSIVE build(_, _, _)
build(t, ks, value) ==
    IF ks = <<>> THEN t ELSE build(insert(t, Head(ks), value).t, Tail(ks), value)

RECURSIVE Injective(_)
Injective(ks) ==
    \/ ks = <<>>
    \/ /\ \A i \in 1..(Len(ks) - 1) : ks[i] # ks[Len(ks)]
       /\ Injective(SubSeq(ks, 1, Len(ks) - 1))

OtherSeqs ==
    {ks \in UNION {[1..n -> OtherKeys] : n \in 0..MaxOther} : Injective(ks)}

AppendOther(ks, value) ==
    LET other_map == build(new(heap), ks, value)
        r == append([Self EXCEPT !.heap = other_map.heap], other_map)
    IN  /\ Store(r.t)
        /\ op' = "append"
        /\ ret' = <<r.other.root, r.other.num_nodes>>
        /\ model' = {e \in model : \A i \in 1..Len(ks) : e[1] # ks[i]}
                        \cup {<<ks[i], value>> : i \in 1..Len(ks)}
        /\ UNCHANGED <<second, cursor>>

OrInsert(key, value) ==
    LET r == or_insert(Self, entry(Self, key), value)
    IN  /\ Store(r.t)
        /\ op' = "or_insert"
        /\ ret' = Some(r.ref)
        /\ model' = IF \E e \in model : e[1] = key THEN model ELSE model \cup {<<key, value>>}
        /\ UNCHANGED <<second, cursor>>

OccupiedInsert(key, value) ==
    LET e == entry(Self, key)
    IN  /\ e.kind = "Occupied"
        /\ LET r == OccupiedEntry_insert(Self, e, value)
           IN  /\ Store(r.t)
               /\ op' = "occupied_insert"
               /\ ret' = Some(r.value)
               /\ model' = {x \in model : x[1] # key} \cup {<<key, value>>}
               /\ UNCHANGED <<second, cursor>>

OccupiedRemove(key) ==
    LET e == entry(Self, key)
    IN  /\ e.kind = "Occupied"
        /\ LET r == OccupiedEntry_remove(Self, e)
           IN  /\ Store(r.t)
               /\ op' = "occupied_remove"
               /\ ret' = Some(r.value)
               /\ model' = {x \in model : x[1] # key}
               /\ UNCHANGED <<second, cursor>>

(***************************************************************************)
(* Spec: insert, remove, remove_entry and clear over Keys and Vals.        *)
(***************************************************************************)
Next ==
    \/ \E key \in Keys, value \in Vals : Insert(key, value)
    \/ \E key \in Keys : Remove(key)
    \/ \E key \in Keys : RemoveEntry(key)
    \/ Clear

Spec == Init /\ [][Next]_vars

(***************************************************************************)
(* SpecAll: every mutating operation of the map, over SmallKeys.           *)
(***************************************************************************)
NextAll ==
    \/ \E key \in SmallKeys, value \in Vals : Insert(key, value)
    \/ \E key \in SmallKeys : Remove(key)
    \/ \E key \in SmallKeys : RemoveEntry(key)
    \/ Clear
    \/ \E ks \in OtherSeqs : AppendOther(ks, 1)
    \/ \E key \in SmallKeys, value \in Vals : OrInsert(key, value)
    \/ \E key \in SmallKeys, value \in Vals : OccupiedInsert(key, value)
    \/ \E key \in SmallKeys : OccupiedRemove(key)

SpecAll == Init /\ [][NextAll]_vars

(***************************************************************************)
(* SpecDeep: insert and remove alone, over a key set large enough for      *)
(* trees of height 3, where a removal rebalances above the node it starts  *)
(* at.                                                                     *)
(***************************************************************************)
NextDeep ==
    \/ \E key \in DeepKeySet : Insert(key, 1)
    \/ \E key \in DeepKeySet : Remove(key)

SpecDeep == Init /\ [][NextDeep]_vars

(***************************************************************************)
(* SpecClone: two maps in one heap.  The second map is the result of       *)
(* clone() or a map of its own; both are changed by insert and remove and  *)
(* compared with == and cmp.                                               *)
(***************************************************************************)
SecondMap == [root |-> second.root, num_nodes |-> second.num_nodes, heap |-> heap]

StoreSecond(t) ==
    /\ second' = [root |-> t.root, num_nodes |-> t.num_nodes]
    /\ heap' = t.heap

\* second = self.clone(), the map that second held before having been dropped.
Clone ==
    LET r == clone_tree([Self EXCEPT !.heap = clear(SecondMap).heap])
    IN  /\ heap' = r.heap
        /\ second' = r.other
        /\ op' = "clone"
        /\ ret' = NoneOpt
        /\ UNCHANGED <<root, num_nodes, model, cursor>>

InsertSecond(key, value) ==
    LET r == insert(SecondMap, key, value)
    IN  /\ StoreSecond(r.t)
        /\ op' = "insert_second"
        /\ ret' = r.ret
        /\ UNCHANGED <<root, num_nodes, model, cursor>>

RemoveSecond(key) ==
    LET r == remove(SecondMap, key)
    IN  /\ StoreSecond(r.t)
        /\ op' = "remove_second"
        /\ ret' = r.ret
        /\ UNCHANGED <<root, num_nodes, model, cursor>>

\* self == second and self.cmp(&second)
Compare ==
    /\ op' = "compare"
    /\ ret' = [eq |-> eq(Self, SecondMap), cmp |-> cmp(Self, SecondMap)]
    /\ UNCHANGED <<root, num_nodes, heap, model, second, cursor>>

NextClone ==
    \/ \E key \in SmallKeys : Insert(key, 1)
    \/ \E key \in SmallKeys : Remove(key)
    \/ Clone
    \/ \E key \in SmallKeys, value \in Vals : InsertSecond(key, value)
    \/ \E key \in SmallKeys : RemoveSecond(key)
    \/ Compare

SpecClone == Init /\ [][NextClone]_vars

(***************************************************************************)
(* SpecIter: a map changed by insert and remove while no iterator borrows  *)
(* it, and one iterator at a time: iter() or range() creates it, next()    *)
(* and next_back() advance it from either end, and it is dropped before    *)
(* the map changes again.  cursor keeps the NodeIter, the bounds it was    *)
(* made from, the items next() returned (front) and next_back() returned   *)
(* (back) in call order, and the number of calls that returned None.       *)
(***************************************************************************)
\* Bound keys reach below the smallest and above the largest key a map can hold.
BoundKeys == 0..(MaxIterKey + 1)
Bounds == {Unbounded} \cup {Included(key) : key \in BoundKeys}
                      \cup {Excluded(key) : key \in BoundKeys}

Borrowed == <<root, num_nodes, heap, model, second>>

Range(start_bound, end_bound) ==
    LET r == range(Self, start_bound, end_bound)
    IN  /\ cursor.kind = "none"
        /\ cursor' = [kind |-> IF r.panic THEN "panic" ELSE "range",
                      first |-> r.node_iter.first, last |-> r.node_iter.last,
                      front |-> <<>>, back |-> <<>>, nones |-> 0,
                      start_bound |-> start_bound, end_bound |-> end_bound]
        /\ op' = "range"
        /\ ret' = NoneOpt
        /\ UNCHANGED Borrowed

IterAll ==
    /\ cursor.kind = "none"
    /\ cursor' = [kind |-> "iter",
                  first |-> iter(Self).first, last |-> iter(Self).last,
                  front |-> <<>>, back |-> <<>>, nones |-> 0,
                  start_bound |-> Unbounded, end_bound |-> Unbounded]
    /\ op' = "iter"
    /\ ret' = NoneOpt
    /\ UNCHANGED Borrowed

\* The cursor after a pop that returned r, the item going to the sequence `side`.
Popped(r, side) ==
    IF r.panic THEN [cursor EXCEPT !.kind = "next_panicked"]
    ELSE IF r.node = None THEN [cursor EXCEPT !.nones = @ + 1]
    ELSE IF side = "front"
    THEN [cursor EXCEPT !.first = r.it.first, !.last = r.it.last,
                        !.front = Append(@, Iter_item(heap, r.node))]
    ELSE [cursor EXCEPT !.first = r.it.first, !.last = r.it.last,
                        !.back = Append(@, Iter_item(heap, r.node))]

PoppedItem(r) == IF r.panic \/ r.node = None THEN NoneOpt ELSE Some(Iter_item(heap, r.node))

\* Iter::next / Range::next
CursorNext ==
    /\ cursor.kind \in {"iter", "range"}
    /\ cursor.nones < MaxNones
    /\ cursor' = Popped(pop_first(heap, NodeIter_new(cursor.first, cursor.last)), "front")
    /\ op' = "next"
    /\ ret' = PoppedItem(pop_first(heap, NodeIter_new(cursor.first, cursor.last)))
    /\ UNCHANGED Borrowed

\* Iter::next_back / Range::next_back
CursorNextBack ==
    /\ cursor.kind \in {"iter", "range"}
    /\ cursor.nones < MaxNones
    /\ cursor' = Popped(pop_last(heap, NodeIter_new(cursor.first, cursor.last)), "back")
    /\ op' = "next_back"
    /\ ret' = PoppedItem(pop_last(heap, NodeIter_new(cursor.first, cursor.last)))
    /\ UNCHANGED Borrowed

\* The iterator goes out of scope, or the panic of range() has unwound.
CursorDrop ==
    /\ cursor.kind \in {"iter", "range", "panic", "next_panicked"}
    /\ cursor' = NoIter
    /\ op' = "drop"
    /\ ret' = NoneOpt
    /\ UNCHANGED Borrowed

NextIter ==
    \/ \E key \in IterKeys : cursor.kind = "none" /\ Insert(key, 1)
    \/ \E key \in IterKeys : cursor.kind = "none" /\ Remove(key)
    \/ \E start_bound \in Bounds, end_bound \in Bounds : Range(start_bound, end_bound)
    \/ IterAll
    \/ CursorNext
    \/ CursorNextBack
    \/ CursorDrop

SpecIter == Init /\ [][NextIter]_vars

(***************************************************************************)
(* SpecOwn: a map built by insert and remove is consumed by into_iter();   *)
(* next() and next_back() take entries from either end, destroying the     *)
(* node of each, and the iterator is dropped at any point.  model keeps    *)
(* what the map held when it was consumed; cursor keeps the NodeEater and  *)
(* what it has yielded.  A new, empty map follows the drop.                *)
(***************************************************************************)
\* IntoIterator for AvlTreeMap: NodeEater::new(self) takes the root out of the map, whose
\* drop then finds nothing to destroy.
IntoIter ==
    /\ cursor.kind = "none"
    /\ cursor' = [NoIter EXCEPT !.kind = "into_iter",
                                !.first = NodeEater_new(Self).first,
                                !.last = NodeEater_new(Self).last]
    /\ Store(clear([Self EXCEPT !.root = None]))
    /\ op' = "into_iter"
    /\ ret' = NoneOpt
    /\ UNCHANGED <<model, second>>

\* The cursor after a NodeEater pop that returned r, the item going to the sequence `side`.
Eaten(r, side) ==
    IF r.item = NoneOpt THEN [cursor EXCEPT !.nones = @ + 1]
    ELSE IF side = "front"
    THEN [cursor EXCEPT !.first = r.e.first, !.last = r.e.last,
                        !.front = Append(@, r.item[1])]
    ELSE [cursor EXCEPT !.first = r.e.first, !.last = r.e.last,
                        !.back = Append(@, r.item[1])]

\* IntoIter::next
EaterNext ==
    /\ cursor.kind = "into_iter"
    /\ cursor.nones < MaxNones
    /\ cursor' = Eaten(NodeEater_pop_first(heap, [first |-> cursor.first, last |-> cursor.last]),
                       "front")
    /\ heap' = NodeEater_pop_first(heap, [first |-> cursor.first, last |-> cursor.last]).heap
    /\ op' = "into_iter_next"
    /\ ret' = NodeEater_pop_first(heap, [first |-> cursor.first, last |-> cursor.last]).item
    /\ UNCHANGED <<root, num_nodes, model, second>>

\* IntoIter::next_back
EaterNextBack ==
    /\ cursor.kind = "into_iter"
    /\ cursor.nones < MaxNones
    /\ cursor' = Eaten(NodeEater_pop_last(heap, [first |-> cursor.first, last |-> cursor.last]),
                       "back")
    /\ heap' = NodeEater_pop_last(heap, [first |-> cursor.first, last |-> cursor.last]).heap
    /\ op' = "into_iter_next_back"
    /\ ret' = NodeEater_pop_last(heap, [first |-> cursor.first, last |-> cursor.last]).item
    /\ UNCHANGED <<root, num_nodes, model, second>>

\* Drop for NodeEater.  ret is the nodes the walk handed to its three callbacks, in call
\* order (the post-order callback destroys the node, the other two do nothing), and how
\* many entries next() and next_back() had returned before.
EaterDrop ==
    /\ cursor.kind = "into_iter"
    /\ heap' = NodeEater_drop(heap, [first |-> cursor.first, last |-> cursor.last])
    /\ cursor' = NoIter
    /\ op' = "into_iter_drop"
    /\ ret' = [pre |-> traverse(heap, cursor.first, "destroy").pre,
               ino |-> traverse(heap, cursor.first, "destroy").ino,
               post |-> traverse(heap, cursor.first, "destroy").post,
               front |-> Len(cursor.front), back |-> Len(cursor.back)]
    /\ model' = {}
    /\ UNCHANGED <<root, num_nodes, second>>

NextOwn ==
    \/ \E key \in OwnKeys : cursor.kind = "none" /\ Insert(key, 1)
    \/ \E key \in OwnKeys : cursor.kind = "none" /\ Remove(key)
    \/ IntoIter
    \/ EaterNext
    \/ EaterNextBack
    \/ EaterDrop

SpecOwn == Init /\ [][NextOwn]_vars

(***************************************************************************)
(* SpecSet: two sets in one heap, self (root, num_nodes) and second, each  *)
(* changed by insert and remove; the iterators of the set algebra are      *)
(* created over the two and drained, and the three relations are asked.    *)
(* model keeps the values of self, each paired with ().                    *)
(***************************************************************************)
SetInsert(value) ==
    /\ Store(AvlTreeSet_insert(Self, value).t)
    /\ op' = "set_insert"
    /\ ret' = AvlTreeSet_insert(Self, value).ret
    /\ model' = model \cup {<<value, Unit>>}
    /\ UNCHANGED <<second, cursor>>

SetRemove(value) ==
    /\ Store(AvlTreeSet_remove(Self, value).t)
    /\ op' = "set_remove"
    /\ ret' = AvlTreeSet_remove(Self, value).ret
    /\ model' = model \ {<<value, Unit>>}
    /\ UNCHANGED <<second, cursor>>

SetInsertSecond(value) ==
    /\ StoreSecond(AvlTreeSet_insert(SecondMap, value).t)
    /\ op' = "set_insert_second"
    /\ ret' = AvlTreeSet_insert(SecondMap, value).ret
    /\ UNCHANGED <<root, num_nodes, model, cursor>>

SetRemoveSecond(value) ==
    /\ StoreSecond(AvlTreeSet_remove(SecondMap, value).t)
    /\ op' = "set_remove_second"
    /\ ret' = AvlTreeSet_remove(SecondMap, value).ret
    /\ UNCHANGED <<root, num_nodes, model, cursor>>

\* self.union(&second), drained
SetUnion ==
    /\ op' = "union"
    /\ ret' = Union_entries(heap, Union_new(Self, SecondMap))
    /\ UNCHANGED <<root, num_nodes, heap, model, second, cursor>>

\* self.intersection(&second), drained
SetIntersection ==
    /\ op' = "intersection"
    /\ ret' = Intersection_entries(Self, SecondMap, Intersection_new(Self, SecondMap))
    /\ UNCHANGED <<root, num_nodes, heap, model, second, cursor>>

\* self.difference(&second), drained
SetDifference ==
    /\ op' = "difference"
    /\ ret' = Difference_entries(heap, SecondMap, Difference_new(Self, SecondMap))
    /\ UNCHANGED <<root, num_nodes, heap, model, second, cursor>>

\* self.symmetric_difference(&second) and second.symmetric_difference(&self), drained
SetSymmetricDifference ==
    /\ op' = "symmetric_difference"
    /\ ret' = [lhs_rhs |-> SymmetricDifference_entries(
                               heap, SymmetricDifference_new(Self, SecondMap)),
               rhs_lhs |-> SymmetricDifference_entries(
                               heap, SymmetricDifference_new(SecondMap, Self))]
    /\ UNCHANGED <<root, num_nodes, heap, model, second, cursor>>

\* self.is_disjoint(&second), self.is_subset(&second), self.is_superset(&second)
SetRelations ==
    /\ op' = "relations"
    /\ ret' = [is_disjoint |-> is_disjoint(Self, SecondMap),
               is_subset |-> is_subset(Self, SecondMap),
               is_superset |-> is_superset(Self, SecondMap)]
    /\ UNCHANGED <<root, num_nodes, heap, model, second, cursor>>

NextSet ==
    \/ \E value \in SetKeys : SetInsert(value)
    \/ \E value \in SetKeys : SetRemove(value)
    \/ \E value \in SetKeys : SetInsertSecond(value)
    \/ \E value \in SetKeys : SetRemoveSecond(value)
    \/ SetUnion
    \/ SetIntersection
    \/ SetDifference
    \/ SetSymmetricDifference
    \/ SetRelations

SpecSet == Init /\ [][NextSet]_vars

(***************************************************************************)
(* SpecEntry: the entry API one step at a time.  entry(key) borrows the    *)
(* map and leaves the Entry in cursor; or_insert and OccupiedEntry::remove *)
(* consume it, OccupiedEntry::insert works through it and leaves it, and   *)
(* the map is changed by insert and remove while no Entry borrows it.      *)
(***************************************************************************)
GetEntry(key) ==
    /\ cursor.kind = "none"
    /\ cursor' = [kind |-> "entry", entry |-> entry(Self, key)]
    /\ op' = "entry"
    /\ ret' = NoneOpt
    /\ UNCHANGED <<root, num_nodes, heap, model, second>>

EntryOrInsert(value) ==
    /\ cursor.kind = "entry"
    /\ Store(or_insert(Self, cursor.entry, value).t)
    /\ cursor' = NoIter
    /\ op' = "Entry::or_insert"
    /\ ret' = Some(or_insert(Self, cursor.entry, value).ref)
    /\ model' = IF \E e \in model : e[1] = cursor.entry.key THEN model
                ELSE model \cup {<<cursor.entry.key, value>>}
    /\ UNCHANGED second

EntryInsert(value) ==
    /\ cursor.kind = "entry"
    /\ cursor.entry.kind = "Occupied"
    /\ Store(OccupiedEntry_insert(Self, cursor.entry, value).t)
    /\ op' = "OccupiedEntry::insert"
    /\ ret' = Some(OccupiedEntry_insert(Self, cursor.entry, value).value)
    /\ model' = {e \in model : e[1] # cursor.entry.key} \cup {<<cursor.entry.key, value>>}
    /\ UNCHANGED <<second, cursor>>

EntryRemove ==
    /\ cursor.kind = "entry"
    /\ cursor.entry.kind = "Occupied"
    /\ Store(OccupiedEntry_remove(Self, cursor.entry).t)
    /\ cursor' = NoIter
    /\ op' = "OccupiedEntry::remove"
    /\ ret' = Some(OccupiedEntry_remove(Self, cursor.entry).value)
    /\ model' = {e \in model : e[1] # cursor.entry.key}
    /\ UNCHANGED second

\* The Entry goes out of scope unused.
EntryDrop ==
    /\ cursor.kind = "entry"
    /\ cursor' = NoIter
    /\ op' = "entry_drop"
    /\ ret' = NoneOpt
    /\ UNCHANGED <<root, num_nodes, heap, model, second>>

NextEntry ==
    \/ \E key \in Keys, value \in Vals : cursor.kind = "none" /\ Insert(key, value)
    \/ \E key \in Keys : cursor.kind = "none" /\ Remove(key)
    \/ \E key \in Keys : GetEntry(key)
    \/ \E value \in Vals : EntryOrInsert(value)
    \/ \E value \in Vals : EntryInsert(value)
    \/ EntryRemove
    \/ EntryDrop

SpecEntry == Init /\ [][NextEntry]_vars

(***************************************************************************)
(* SpecAscending: the keys 0, 1, 2, ... are inserted in this order into a  *)
(* new map, each with any value, as the loop of test_insert_sorted_range   *)
(* does.                                                                   *)
(***************************************************************************)
InsertAscending(value) ==
    /\ num_nodes < MaxAscending
    /\ Store(insert(Self, num_nodes, value).t)
    /\ op' = "insert"
    /\ ret' = insert(Self, num_nodes, value).ret
    /\ model' = model \cup {<<num_nodes, value>>}
    /\ UNCHANGED <<second, cursor>>

NextAscending == \E value \in Vals : InsertAscending(value)

SpecAscending == Init /\ [][NextAscending]_vars

(***************************************************************************)
(* SpecTree: the Tree of tree.rs under insert and remove.  model keeps the *)
(* keys, each paired with ().                                              *)
(***************************************************************************)
TreeInsert(key) ==
    /\ Store(Tree_insert(Self, key).t)
    /\ op' = "tree_insert"
    /\ ret' = Tree_insert(Self, key).ret
    /\ model' = model \cup {<<key, Unit>>}
    /\ UNCHANGED <<second, cursor>>

TreeRemove(key) ==
    /\ Store(Tree_remove(Self, key).t)
    /\ op' = "tree_remove"
    /\ ret' = Tree_remove(Self, key).ret
    /\ model' = model \ {<<key, Unit>>}
    /\ UNCHANGED <<second, cursor>>

NextTree ==
    \/ \E key \in Keys : TreeInsert(key)
    \/ \E key \in Keys : TreeRemove(key)

SpecTree == Init /\ [][NextTree]_vars

(***************************************************************************)
(* SpecDestroy: the destructive walks.  A map is built by insert and       *)
(* remove and then cleared (as its drop does, too), or turned into an      *)
(* owning iterator that is dropped after any next() and next_back().       *)
(***************************************************************************)
NextDestroy ==
    \/ NextOwn
    \/ cursor.kind = "none" /\ Clear

SpecDestroy == Init /\ [][NextDestroy]_vars

(***************************************************************************)
(* SpecWalk: a map is built by insert and remove, and walked from its root *)
(* as preorder(), inorder() and postorder() walk it, with callbacks that   *)
(* change nothing.  ret is the nodes handed to each callback, in call      *)
(* order.                                                                  *)
(***************************************************************************)
Traverse ==
    /\ heap' = traverse(heap, root, "nop").heap
    /\ op' = "traverse"
    /\ ret' = [pre |-> traverse(heap, root, "nop").pre,
               ino |-> traverse(heap, root, "nop").ino,
               post |-> traverse(heap, root, "nop").post]
    /\ UNCHANGED <<root, num_nodes, model, second, cursor>>

NextWalk ==
    \/ \E key \in OwnKeys : Insert(key, 1)
    \/ \E key \in OwnKeys : Remove(key)
    \/ Traverse

SpecWalk == Init /\ [][NextWalk]_vars

(***************************************************************************)
(* What the properties below speak about: the nodes reachable from a link  *)
(* through left and right links, looked at without any of the operators    *)
(* above.  The depth bound keeps the walk finite on a heap whose links     *)
(* form a cycle.                                                           *)
(***************************************************************************)
RECURSIVE Reach(_, _, _)
Reach(h, link, depth) ==
    IF link = None \/ depth = 0 THEN {}
    ELSE {link} \cup Reach(h, h[link].left, depth - 1) \cup Reach(h, h[link].right, depth - 1)

Subtree(h, link) == Reach(h, link, Cardinality(Addrs) + 1)

Nodes == Subtree(heap, root)

Entries == {<<heap[p].key, heap[p].value>> : p \in Nodes}

StoredKeys == {heap[p].key : p \in Nodes}

Children(p) == {heap[p].left, heap[p].right} \ {None}

\* The height of the subtree behind a link, as the data model defines it.
SubtreeHeight(link) == IF link = None THEN 0 ELSE heap[link].height + 1

HeightCorrect ==
    \A p \in Nodes :
        heap[p].height = IF Children(p) = {} THEN 0
                         ELSE 1 + Lowest({x \in 0..Cardinality(Addrs) :
                                            \A c \in Children(p) : heap[c].height <= x})

AvlBalanced ==
    \A p \in Nodes :
        /\ SubtreeHeight(heap[p].left) <= SubtreeHeight(heap[p].right) + 1
        /\ SubtreeHeight(heap[p].right) <= SubtreeHeight(heap[p].left) + 1

BstOrdered ==
    \A p \in Nodes :
        /\ \A q \in Subtree(heap, heap[p].left) : heap[q].key < heap[p].key
        /\ \A q \in Subtree(heap, heap[p].right) : heap[q].key > heap[p].key

KeysUnique == \A p, q \in Nodes : heap[p].key = heap[q].key => p = q

ParentConsistent ==
    /\ root # None => heap[root].parent = None
    /\ \A p \in Nodes : \A c \in Children(p) : heap[c].parent = p
    /\ \A p \in Nodes \ {root} :
          /\ heap[p].parent # None
          /\ p \in Children(heap[p].parent)

LenCorrect == num_nodes = Cardinality(Nodes)

(***************************************************************************)
(* The same five invariants for any map of the heap, given by its root r   *)
(* and its count n, and the entries of a map in ascending key order.       *)
(***************************************************************************)
EntriesIn(h, r) == {<<h[p].key, h[p].value>> : p \in Subtree(h, r)}

ChildrenIn(h, p) == {h[p].left, h[p].right} \ {None}

SubtreeHeightIn(h, link) == IF link = None THEN 0 ELSE h[link].height + 1

HeightCorrectIn(h, r) ==
    \A p \in Subtree(h, r) :
        h[p].height = IF ChildrenIn(h, p) = {} THEN 0
                      ELSE 1 + Lowest({x \in 0..Cardinality(Addrs) :
                                         \A c \in ChildrenIn(h, p) : h[c].height <= x})

AvlBalancedIn(h, r) ==
    \A p \in Subtree(h, r) :
        /\ SubtreeHeightIn(h, h[p].left) <= SubtreeHeightIn(h, h[p].right) + 1
        /\ SubtreeHeightIn(h, h[p].right) <= SubtreeHeightIn(h, h[p].left) + 1

BstOrderedIn(h, r) ==
    \A p \in Subtree(h, r) :
        /\ \A q \in Subtree(h, h[p].left) : h[q].key < h[p].key
        /\ \A q \in Subtree(h, h[p].right) : h[q].key > h[p].key

ParentConsistentIn(h, r) ==
    /\ r # None => h[r].parent = None
    /\ \A p \in Subtree(h, r) : \A c \in ChildrenIn(h, p) : h[c].parent = p
    /\ \A p \in Subtree(h, r) \ {r} :
          /\ h[p].parent # None
          /\ p \in ChildrenIn(h, h[p].parent)

AllFiveIn(h, r, n) ==
    /\ BstOrderedIn(h, r)
    /\ ParentConsistentIn(h, r)
    /\ AvlBalancedIn(h, r)
    /\ HeightCorrectIn(h, r)
    /\ n = Cardinality(Subtree(h, r))

SecondNodes == Subtree(heap, second.root)

SecondEntries == EntriesIn(heap, second.root)

\* The pairs of S, which holds one pair for a key, in ascending key order.
RECURSIVE SortedSeq(_)
SortedSeq(S) ==
    IF S = {} THEN <<>>
    ELSE LET least == CHOOSE e \in S : \A f \in S : e[1] <= f[1]
         IN  <<least>> \o SortedSeq(S \ {least})

\* Two links lead to trees of the same shape that hold the same entries in the same places.
RECURSIVE SameTree(_, _, _, _)
SameTree(h, a, b, depth) ==
    IF a = None \/ b = None THEN a = b
    ELSE /\ depth > 0
         /\ h[a].key = h[b].key
         /\ h[a].value = h[b].value
         /\ SameTree(h, h[a].left, h[b].left, depth - 1)
         /\ SameTree(h, h[a].right, h[b].right, depth - 1)

(***************************************************************************)
(* SpecAppend: two maps in one heap, self and second, each filled by       *)
(* insert; self.append(&mut second) moves the entries of second into self  *)
(* and leaves a new map in second, which is filled again.                  *)
(***************************************************************************)
\* self.append(&mut second)
AppendSecond ==
    /\ Store(append(Self, SecondMap).t)
    /\ second' = [root |-> append(Self, SecondMap).other.root,
                  num_nodes |-> append(Self, SecondMap).other.num_nodes]
    /\ op' = "append_second"
    /\ ret' = NoneOpt
    /\ model' = {e \in model : \A f \in SecondEntries : f[1] # e[1]} \cup SecondEntries
    /\ UNCHANGED cursor

NextAppend ==
    \/ \E key \in SmallKeys : Insert(key, 1)
    \/ \E key \in SmallKeys : Remove(key)
    \/ \E key \in OtherKeys, value \in Vals : InsertSecond(key, value)
    \/ AppendSecond

SpecAppend == Init /\ [][NextAppend]_vars

\* C1: after every insert and remove, every node stores height 0 when it has no child and
\* otherwise 1 + the maximum stored height of its children, and the left and right subtree
\* heights of every node differ by at most 1.
C1_HeightsAndBalance == HeightCorrect /\ AvlBalanced

\* A removal that left a tree of height 3: some node of it has a subtree of height 2 on
\* one side and of height 3 on the other.
C1_Witness ==
    /\ op = "remove" /\ ret # NoneOpt
    /\ root # None /\ heap[root].height = 3
    /\ \E p \in Nodes : SubtreeHeight(heap[p].left) # SubtreeHeight(heap[p].right)

\* C2: after every insert and remove, every key of a node's left subtree is less than the
\* node's key and every key of its right subtree is greater; no key is stored twice.
C2_BstOrdering == BstOrdered /\ KeysUnique

\* A removal of a node with two children whose place was taken by its successor: the
\* root has two children after a removal from a tree that keeps at least seven nodes.
C2_Witness ==
    /\ op = "remove" /\ ret # NoneOpt
    /\ num_nodes >= 7
    /\ root # None /\ heap[root].left # None /\ heap[root].right # None

\* C3: after every insert and remove, every present child names its parent in its parent
\* link, every node but the root is a child of the node its parent link names, and the
\* root has no parent.
C3_ParentConsistency == ParentConsistent

C3_Witness ==
    /\ op = "insert" /\ ret = NoneOpt
    /\ num_nodes >= 7
    /\ \E p \in Nodes \ {root} : heap[p].parent # root

AllFive == BstOrdered /\ ParentConsistent /\ AvlBalanced /\ HeightCorrect /\ LenCorrect

\* C4: after every insert, remove, clear, append and entry insertion or removal, len() is
\* the number of nodes reachable from the root, and is_empty() holds exactly when
\* len() = 0.
C4_LenIsNodeCount ==
    /\ len(Self) = Cardinality(Nodes)
    /\ is_empty(Self) <=> len(Self) = 0

\* An append that added keys to a map that held an entry of its own.
C4_Witness ==
    /\ op = "append"
    /\ num_nodes = MaxSmallKey
    /\ \E e \in Entries : e[2] = MaxVal

\* The abstract map's answer for a key.
ModelKeys == {e[1] : e \in model}
ModelGet(key) ==
    IF key \in ModelKeys THEN Some((CHOOSE e \in model : e[1] = key)[2]) ELSE NoneOpt

\* C5: after any sequence of insert, remove and clear, get, get_key_value and contains_key
\* answer like the abstract finite map: the value of the latest insert of the key that
\* was not removed or cleared since, and None / false for every other key.
C5_RefinesFiniteMap ==
    \A key \in 0..(MaxKey + 1) :
        /\ get(Self, key) = ModelGet(key)
        /\ get_key_value(Self, key) =
               IF key \in ModelKeys THEN Some(<<key, ModelGet(key)[1]>>) ELSE NoneOpt
        /\ contains_key(Self, key) <=> key \in ModelKeys

\* A removal from a map that still holds a key whose value was replaced or set to MaxVal.
C5_Witness ==
    /\ op = "remove" /\ ret # NoneOpt
    /\ \E key \in Keys : get(Self, key) = Some(MaxVal)
    /\ \E key \in Keys : get(Self, key) = NoneOpt

NodeOf(key) == CHOOSE p \in Nodes : heap[p].key = key

\* C6: insert(k, v) on a map without k returns None, adds exactly the entry (k, v) and
\* raises len() by one; on a map with k it returns Some(previous value), replaces only
\* that value and leaves len(), the shape, the heights and the other entries unchanged.
C6_Insert ==
    [][\A key \in Keys, value \in Vals :
          Insert(key, value) =>
              IF key \notin StoredKeys
              THEN /\ ret' = NoneOpt
                   /\ Entries' = Entries \cup {<<key, value>>}
                   /\ num_nodes' = num_nodes + 1
              ELSE /\ ret' = Some(heap[NodeOf(key)].value)
                   /\ heap' = [heap EXCEPT ![NodeOf(key)].value = value]
                   /\ root' = root
                   /\ num_nodes' = num_nodes]_vars

\* An insert that replaced a value in a map of four keys.
C6_Witness ==
    /\ op = "insert" /\ ret # NoneOpt /\ ret # Some(MaxVal)
    /\ num_nodes = MaxKey
    /\ \E e \in Entries : e[2] = MaxVal

\* C7: remove(k) on a map with k returns Some(the value stored for k), remove_entry(k)
\* Some((k, that value)); len() drops by one, get(k) is None right afterwards and every
\* other key keeps its value.
C7_RemovePresent ==
    [][\A key \in Keys :
          key \in StoredKeys =>
              /\ Remove(key) => ret' = Some(heap[NodeOf(key)].value)
              /\ RemoveEntry(key) => ret' = Some(<<key, heap[NodeOf(key)].value>>)
              /\ Remove(key) \/ RemoveEntry(key) =>
                    /\ num_nodes' = num_nodes - 1
                    /\ get(Self, key)' = NoneOpt
                    /\ Entries' = Entries \ {<<key, heap[NodeOf(key)].value>>}
                    /\ \A other \in Keys \ {key} : get(Self, other)' = get(Self, other)]_vars

\* A removal of a key with value MaxVal that left three keys behind.
C7_Witness ==
    /\ op = "remove" /\ ret = Some(MaxVal)
    /\ num_nodes = MaxKey - 1

\* C8: remove(k) and remove_entry(k) for a key that is not in the map return None and
\* change nothing: not the root, not a field of any node, not len().
C8_RemoveAbsent ==
    [][\A key \in Keys :
          (key \notin StoredKeys /\ (Remove(key) \/ RemoveEntry(key))) =>
              /\ ret' = NoneOpt
              /\ root' = root
              /\ heap' = heap
              /\ num_nodes' = num_nodes]_vars

\* A remove_entry of an absent key on a map of three keys.
C8_Witness ==
    /\ op = "remove_entry" /\ ret = NoneOpt
    /\ num_nodes = MaxKey - 1

\* C9: iter(), keys(), values() and iter_mut() of a map reached by inserts and removes
\* yield every stored entry once, in strictly ascending key order: the first len() calls
\* of next() return an entry each and the next call returns None.
C9_IterAscending ==
    LET r == next_calls(heap, iter(Self), len(Self) + 1)
        n == len(Self)
    IN  /\ ~r.panic
        /\ Len(r.links) = n + 1
        /\ r.links[n + 1] = None
        /\ \A i \in 1..n : r.links[i] # None
        /\ \A i \in 1..(n - 1) :
              Keys_item(heap, r.links[i]) < Keys_item(heap, r.links[i + 1])
        /\ {Iter_item(heap, r.links[i]) : i \in 1..n} = Entries
        /\ {Keys_item(heap, r.links[i]) : i \in 1..n} = StoredKeys
        /\ \A i \in 1..n : Values_item(heap, r.links[i]) = Iter_item(heap, r.links[i])[2]

\* A tree of height 3 after a removal: the walk from a node without right child climbs
\* more than one parent link.
C9_Witness ==
    /\ op = "remove" /\ ret # NoneOpt
    /\ root # None /\ heap[root].height = 3
    /\ \E p \in Nodes : /\ heap[p].right = None
                        /\ heap[p].parent # None
                        /\ heap[heap[p].parent].right = p
                        /\ heap[heap[p].parent].parent # None

\* C10: after inserting any keys in any order, every removal leaves all five structural
\* invariants intact, and once every inserted key has been removed the map is empty:
\* is_empty(), len() = 0 and no root.
C10_RemoveAll ==
    (op = "remove" /\ ret # NoneOpt) =>
        /\ AllFive
        /\ model = {} => (is_empty(Self) /\ len(Self) = 0 /\ root = None)

\* The removal of the last key.
C10_Witness ==
    /\ op = "remove" /\ ret # NoneOpt
    /\ model = {}
    /\ root = None

\* C11: clear() leaves the map empty (is_empty(), len() = 0, no root, no node left in the
\* heap), which is the state of a newly created map, and the insert that follows a clear
\* behaves as on a new map: it returns None, len() is 1, the map holds exactly the inserted
\* entry and the five invariants hold.
C11_ClearThenReuse ==
    [][/\ Clear => /\ is_empty(Self)' /\ len(Self)' = 0 /\ root' = None
                   /\ Self' = new([a \in Addrs |-> Freed])
       /\ \A key \in Keys, value \in Vals :
             (op = "clear" /\ Insert(key, value)) =>
                 /\ ret' = NoneOpt
                 /\ len(Self)' = 1
                 /\ Entries' = {<<key, value>>}
                 /\ AllFive']_vars

\* A map that was cleared: nothing is stored and no node is left in the heap.
C11_Witness ==
    /\ op = "clear"
    /\ root = None /\ num_nodes = 0
    /\ \A a \in Addrs : ~IsLive(heap, a)

\* C12: the map clone() returns satisfies the five invariants (BST ordering, parent
\* consistency, AVL balance, stored heights equal to the recomputed heights, len() equal
\* to the node count), and still does after every insert and remove applied to it.
C12_CloneKeepsInvariants ==
    op \in {"clone", "insert_second", "remove_second"} =>
        AllFiveIn(heap, second.root, second.num_nodes)

\* C13: clone() returns a map with the same entries in the same tree shape, made of nodes
\* that are not nodes of the source; the source is unchanged; the two maps never share a
\* node, and an insert or remove on one of them leaves the entries and the nodes of the
\* other as they were.
C13_CloneIsDeepCopy ==
    [][/\ op' = "clone" =>
            /\ SameTree(heap', root, second'.root, Cardinality(Addrs))
            /\ EntriesIn(heap', second'.root) = Entries
            /\ len(SecondMap)' = len(Self)
            /\ Subtree(heap', second'.root) \cap Nodes = {}
            /\ \A p \in Subtree(heap', second'.root) : IsLive(heap', p)
            /\ root' = root /\ num_nodes' = num_nodes
            /\ \A p \in Nodes : heap'[p] = heap[p]
       /\ (Nodes \cap SecondNodes = {})'
       /\ op' \in {"insert_second", "remove_second"} =>
            /\ Entries' = Entries
            /\ root' = root /\ num_nodes' = num_nodes
            /\ \A p \in Nodes : heap'[p] = heap[p]
       /\ op' \in {"insert", "remove"} =>
            /\ SecondEntries' = SecondEntries
            /\ second' = second
            /\ \A p \in SecondNodes : heap'[p] = heap[p]]_vars

\* A clone of a map of three keys, whose root has both children: the copy of the right
\* subtree was taken up from the stack after the left subtree was done.
C13_Witness ==
    /\ op = "clone"
    /\ num_nodes = MaxSmallKey /\ second.num_nodes = MaxSmallKey
    /\ second.root # None /\ second.root # root
    /\ heap[second.root].left # None /\ heap[second.root].right # None

\* C14: a == b holds exactly when the two maps hold the same sequence of entries in key
\* order, so not for maps of different len(), and exactly when a.cmp(b) is Equal.
C14_EqIffSameEntries ==
    op = "compare" =>
        /\ ~ret.eq.panic /\ ~ret.cmp.panic
        /\ ret.eq.value <=> SortedSeq(Entries) = SortedSeq(SecondEntries)
        /\ ret.eq.value <=> ret.cmp.value = "Equal"

\* A key lies within a start bound and an end bound.
InBounds(key, start_bound, end_bound) ==
    /\ \/ start_bound.kind = "Unbounded"
       \/ start_bound.kind = "Included" /\ key >= start_bound.key
       \/ start_bound.kind = "Excluded" /\ key > start_bound.key
    /\ \/ end_bound.kind = "Unbounded"
       \/ end_bound.kind = "Included" /\ key <= end_bound.key
       \/ end_bound.kind = "Excluded" /\ key < end_bound.key

\* What the iterator of cursor is to yield in all: the entries of the map within the
\* bounds the iterator was made from, in ascending key order.
Expected ==
    SortedSeq({e \in Entries : InBounds(e[1], cursor.start_bound, cursor.end_bound)})

\* C15: the iterator range() (and range_mut(), which resolves its bounds by the same
\* find_range) returns yields exactly the entries whose keys satisfy both bounds, in
\* ascending key order, and then None, whether or not the bound keys are stored.
C15_RangeYieldsBoundedEntries ==
    (op = "range" /\ cursor.kind = "range") =>
        LET n == Len(Expected)
            r == next_calls(heap, NodeIter_new(cursor.first, cursor.last), n + 1)
        IN  /\ ~r.panic
            /\ Len(r.links) = n + 1
            /\ r.links[n + 1] = None
            /\ \A i \in 1..n : r.links[i] # None
            /\ \A i \in 1..n : Iter_item(heap, r.links[i]) = Expected[i]

\* A range from an excluded key that is not stored to an included key that is stored,
\* which holds at least two entries and leaves at least one entry of the map out.
C15_Witness ==
    /\ op = "range" /\ cursor.kind = "range"
    /\ cursor.start_bound.kind = "Excluded" /\ cursor.start_bound.key \notin StoredKeys
    /\ cursor.end_bound.kind = "Included" /\ cursor.end_bound.key \in StoredKeys
    /\ Len(Expected) >= 2
    /\ Len(Expected) < num_nodes

\* The ranges the documentation of range() says it panics on.
ShouldPanic(start_bound, end_bound) ==
    /\ start_bound.kind # "Unbounded"
    /\ end_bound.kind # "Unbounded"
    /\ \/ start_bound.key > end_bound.key
       \/ /\ start_bound.kind = "Excluded" /\ end_bound.kind = "Excluded"
          /\ start_bound.key = end_bound.key

\* C16: range() panics exactly when the start key is greater than the end key, or both
\* bounds are Excluded and equal; what the map holds plays no part, a range with an
\* Unbounded side never panics, and the map is unchanged.
C16_RangePanics ==
    [][op' = "range" =>
          /\ cursor'.kind = "panic" <=> ShouldPanic(cursor'.start_bound, cursor'.end_bound)
          /\ cursor'.kind \in {"panic", "range"}
          /\ root' = root /\ num_nodes' = num_nodes /\ heap' = heap]_vars

\* range((Excluded(k), Excluded(k))) panicked on an empty map.
C16_Witness ==
    /\ op = "range" /\ cursor.kind = "panic"
    /\ root = None
    /\ cursor.start_bound.kind = "Excluded" /\ cursor.end_bound.kind = "Excluded"
    /\ cursor.start_bound.key = cursor.end_bound.key

\* C17: a valid range that holds no key of the map yields nothing: next() and next_back()
\* return None and neither panics.
C17_EmptyRangeYieldsNothing ==
    (cursor.kind \in {"range", "next_panicked"} /\ Expected = <<>>) =>
        /\ cursor.kind = "range"
        /\ cursor.front = <<>>
        /\ cursor.back = <<>>

\* Two Excluded bounds at adjacent stored keys, a range between the keys of the map, on
\* which MaxNones calls returned None.
C17_Witness ==
    /\ cursor.kind = "range" /\ cursor.nones = MaxNones
    /\ op = "next_back"
    /\ cursor.start_bound.kind = "Excluded" /\ cursor.end_bound.kind = "Excluded"
    /\ cursor.start_bound.key \in StoredKeys /\ cursor.end_bound.key \in StoredKeys
    /\ cursor.end_bound.key = cursor.start_bound.key + 1
    /\ \E key \in StoredKeys : key < cursor.start_bound.key
    /\ \E key \in StoredKeys : key > cursor.end_bound.key

\* C18: under every interleaving of next() and next_back() on iter() and range(), next()
\* returns the smallest and next_back() the largest entry not yet returned, no entry is
\* returned twice, None is returned only when every entry has been returned, and from
\* then on by every call.
C18_DoubleEnded ==
    cursor.kind \in {"iter", "range", "next_panicked"} =>
        /\ cursor.kind # "next_panicked"
        /\ Len(cursor.front) + Len(cursor.back) <= Len(Expected)
        /\ \A i \in 1..Len(cursor.front) : cursor.front[i] = Expected[i]
        /\ \A i \in 1..Len(cursor.back) : cursor.back[i] = Expected[Len(Expected) + 1 - i]
        /\ cursor.nones > 0 => Len(cursor.front) + Len(cursor.back) = Len(Expected)

\* An iterator over four entries that gave two of them to next() and two to next_back()
\* and then answered None MaxNones times.
C18_Witness ==
    /\ cursor.kind = "iter" /\ cursor.nones = MaxNones
    /\ Len(cursor.front) = 2 /\ Len(cursor.back) = 2
    /\ root # None /\ heap[root].height = 2

\* C19: into_iter() yields every pair the map held exactly once: under every interleaving
\* of next() and next_back(), next() returns the pairs in ascending and next_back() in
\* descending key order, none twice, and None is returned only when every pair has been
\* yielded, and from then on by every call.
C19_IntoIterYieldsAll ==
    cursor.kind = "into_iter" =>
        /\ Len(cursor.front) + Len(cursor.back) <= Cardinality(model)
        /\ \A i \in 1..Len(cursor.front) : cursor.front[i] = SortedSeq(model)[i]
        /\ \A i \in 1..Len(cursor.back) :
              cursor.back[i] = SortedSeq(model)[Cardinality(model) + 1 - i]
        /\ cursor.nones > 0 => Len(cursor.front) + Len(cursor.back) = Cardinality(model)

\* An owning iterator that gave at least three pairs to next() and three to next_back()
\* and then answered None MaxNones times.
C19_Witness ==
    /\ cursor.kind = "into_iter" /\ cursor.nones = MaxNones
    /\ Len(cursor.front) >= 3 /\ Len(cursor.back) >= 3

\* The elements of a sequence, and whether it holds none of them twice.
Elements(seq) == {seq[i] : i \in DOMAIN seq}
NoRepeats(seq) == \A i, j \in DOMAIN seq : seq[i] = seq[j] => i = j

\* C20: dropping an owning iterator after any next() and next_back() calls destroys every
\* node that was not yielded exactly once and no other: the walk from the front node comes
\* to every remaining node, to each once and to no destroyed one, ends at the parentless
\* root and leaves no node behind.
C20_DropDestroysRemaining ==
    [][op' = "into_iter_drop" =>
          LET remaining == {a \in Addrs : IsLive(heap, a)}
          IN  /\ Cardinality(remaining) =
                     Cardinality(model) - Len(cursor.front) - Len(cursor.back)
              /\ Elements(ret'.post) = remaining /\ NoRepeats(ret'.post)
              /\ Elements(ret'.pre) \subseteq remaining /\ NoRepeats(ret'.pre)
              /\ Elements(ret'.ino) = remaining /\ NoRepeats(ret'.ino)
              /\ remaining # {} =>
                     /\ ret'.pre[1] = cursor.first
                     /\ heap[ret'.post[Len(ret'.post)]].parent = None
              /\ \A a \in Addrs : ~IsLive(heap', a)]_vars

\* A drop after next() and next_back() had each returned an entry, of at least three nodes,
\* where the walk started at a node that is not the root.
C20_Witness ==
    /\ op = "into_iter_drop"
    /\ ret.front >= 1 /\ ret.back >= 1
    /\ Len(ret.post) >= 3
    /\ ret.pre[1] # ret.post[Len(ret.post)]

\* The values of the second set, and the values of a set in ascending order.
SecondKeys == {e[1] : e \in SecondEntries}

RECURSIVE Ascending(_)
Ascending(S) ==
    IF S = {} THEN <<>>
    ELSE <<Lowest(S)>> \o Ascending(S \ {Lowest(S)})

\* C21: a.intersection(&b) yields exactly the values that are in both sets, each once, in
\* ascending order, whatever the sizes of the two sets and the gaps between their values.
C21_Intersection ==
    op = "intersection" =>
        ret = [entries |-> Ascending(ModelKeys \cap SecondKeys), panic |-> FALSE]

\* An intersection of two values, of sets of different sizes, where the left set holds a
\* value of its own below a common one, so that its range is restarted.
C21_Witness ==
    /\ op = "intersection"
    /\ Len(ret.entries) >= 2
    /\ Cardinality(ModelKeys) # Cardinality(SecondKeys)
    /\ \E k \in ModelKeys \ SecondKeys : \E c \in ModelKeys \cap SecondKeys : k < c

\* C22: a.difference(&b) yields exactly the values that are in a and not in b, each once,
\* in ascending order.
C22_Difference ==
    op = "difference" =>
        ret = [entries |-> Ascending(ModelKeys \ SecondKeys), panic |-> FALSE]

\* A difference that yields a value above every value of b, and skips a common value, with
\* a value of b alone below a value of a.
C22_Witness ==
    /\ op = "difference"
    /\ ModelKeys \cap SecondKeys # {}
    /\ \E k \in ModelKeys : \A c \in SecondKeys : c < k
    /\ \E c \in SecondKeys \ ModelKeys : \E k \in ModelKeys : c < k
    /\ Len(ret.entries) >= 1

\* C23: a.union(&b) yields exactly the values that are in a or in b, a value of both once,
\* in ascending order.
C23_Union ==
    op = "union" =>
        ret = [entries |-> Ascending(ModelKeys \cup SecondKeys), panic |-> FALSE]

\* A union of two sets that share a value and hold a value of their own each.
C23_Witness ==
    /\ op = "union"
    /\ ModelKeys \cap SecondKeys # {}
    /\ ModelKeys \ SecondKeys # {}
    /\ SecondKeys \ ModelKeys # {}
    /\ Len(ret.entries) = MaxSetKey

\* C24: a.symmetric_difference(&b) yields exactly the values that are in exactly one of a
\* and b, in ascending order, and b.symmetric_difference(&a) yields the same sequence.
C24_SymmetricDifference ==
    op = "symmetric_difference" =>
        /\ ret.lhs_rhs = [entries |-> Ascending((ModelKeys \ SecondKeys)
                                                  \cup (SecondKeys \ ModelKeys)),
                          panic |-> FALSE]
        /\ ret.rhs_lhs = ret.lhs_rhs

\* A symmetric difference of two sets that share a value and hold a value of their own
\* each.
C24_Witness ==
    /\ op = "symmetric_difference"
    /\ ModelKeys \cap SecondKeys # {}
    /\ ModelKeys \ SecondKeys # {}
    /\ SecondKeys \ ModelKeys # {}
    /\ Len(ret.lhs_rhs.entries) >= 2

\* C25: a.is_disjoint(&b) is true exactly when no value is in both sets, a.is_subset(&b)
\* exactly when every value of a is in b, and a.is_superset(&b) exactly when
\* b.is_subset(&a), which is when every value of b is in a.
C25_Relations ==
    op = "relations" =>
        /\ ret.is_disjoint = [panic |-> FALSE, value |-> ModelKeys \cap SecondKeys = {}]
        /\ ret.is_subset = [panic |-> FALSE, value |-> ModelKeys \subseteq SecondKeys]
        /\ ret.is_superset = [panic |-> FALSE, value |-> SecondKeys \subseteq ModelKeys]
        /\ ret.is_superset = is_subset(SecondMap, Self)

\* The relations of a set to a set that is not smaller, and that it shares a value with
\* without being a part of it.
C25_Witness ==
    /\ op = "relations"
    /\ ModelKeys \cap SecondKeys # {}
    /\ ModelKeys \ SecondKeys # {}
    /\ Cardinality(ModelKeys) <= Cardinality(SecondKeys)
    /\ ~ret.is_subset.value /\ ~ret.is_disjoint.value /\ ~ret.is_superset.value

\* C26: a.append(&mut b) leaves b empty, with is_empty() and len() = 0, and usable: the
\* next insert into b gives a map of one entry.  It leaves a holding the keys of both maps,
\* with b's value for every key that was in both and its own value for the others, len()
\* the number of distinct keys, and the five invariants intact.
C26_Append ==
    [][/\ op' = "append_second" =>
             /\ second'.root = None /\ second'.num_nodes = 0
             /\ is_empty(new(heap')) /\ len([second' EXCEPT !.root = None]) = 0
             /\ EntriesIn(heap', root') =
                    SecondEntries \cup {e \in Entries : \A f \in SecondEntries : f[1] # e[1]}
             /\ num_nodes' = Cardinality({e[1] : e \in Entries \cup SecondEntries})
             /\ AllFiveIn(heap', root', num_nodes')
       /\ (op = "append_second" /\ op' = "insert_second") =>
             /\ ret' = NoneOpt
             /\ second'.num_nodes = 1
             /\ Cardinality(EntriesIn(heap', second'.root)) = 1
             /\ AllFiveIn(heap', second'.root, second'.num_nodes)
             /\ EntriesIn(heap', root') = Entries
      ]_vars

\* An append of a map of two entries to a map that held one of the two keys with another
\* value, and a third key.
C26_Witness ==
    /\ op = "append_second"
    /\ num_nodes = MaxSmallKey
    /\ second.root = None
    /\ \E e \in Entries : e[2] = MaxVal
    /\ \E e \in Entries : e[2] # MaxVal

\* C27: entry(k) is Occupied exactly when k is in the map, and obtaining it changes
\* nothing.  or_insert(v) on a vacant entry leaves the map as insert(k, v) leaves it, with
\* len() + 1 and the invariants intact, and on an occupied entry it changes nothing and
\* refers to the stored value.  OccupiedEntry::remove leaves the map as remove(k) leaves it
\* and returns the value.  OccupiedEntry::insert replaces the value of the entry, nothing
\* else, and returns the old value.
C27_EntryRefinesMapOps ==
    [][/\ op' = "entry" =>
             /\ UNCHANGED <<root, num_nodes, heap>>
             /\ cursor'.entry.kind = "Occupied" <=> cursor'.entry.key \in ModelKeys
             /\ cursor'.entry.kind \in {"Occupied", "Vacant"}
       /\ (op' = "Entry::or_insert" /\ cursor.entry.kind = "Vacant") =>
             /\ [root |-> root', num_nodes |-> num_nodes', heap |-> heap'] =
                    insert(Self, cursor.entry.key,
                           (CHOOSE e \in model' : e[1] = cursor.entry.key)[2]).t
             /\ ret' = Some((CHOOSE e \in model' : e[1] = cursor.entry.key)[2])
             /\ num_nodes' = num_nodes + 1
             /\ AllFiveIn(heap', root', num_nodes')
       /\ (op' = "Entry::or_insert" /\ cursor.entry.kind = "Occupied") =>
             /\ UNCHANGED <<root, num_nodes, heap>>
             /\ ret' = ModelGet(cursor.entry.key)
       /\ op' = "OccupiedEntry::remove" =>
             /\ [root |-> root', num_nodes |-> num_nodes', heap |-> heap'] =
                    remove(Self, cursor.entry.key).t
             /\ ret' = ModelGet(cursor.entry.key)
       /\ op' = "OccupiedEntry::insert" =>
             /\ UNCHANGED <<root, num_nodes>>
             /\ heap' = [heap EXCEPT ![NodeOf(cursor.entry.key)].value =
                             (CHOOSE e \in model' : e[1] = cursor.entry.key)[2]]
             /\ ret' = ModelGet(cursor.entry.key)
      ]_vars

\* An or_insert on a map that holds MaxKey entries afterwards, which refers to the one
\* value MaxVal of the map, held by a node below the root.
C27_Witness ==
    /\ op = "Entry::or_insert"
    /\ ret = Some(MaxVal)
    /\ num_nodes = MaxKey
    /\ Cardinality({e \in Entries : e[2] = MaxVal}) = 1
    /\ heap[root].value # MaxVal

\* C28: a map that holds exactly three keys after any sequence of inserts and removes has
\* height() = 1, the middle key at the root and the other two in its two children; so it
\* is after three inserts in any order and after a removal from a map of four keys.
C28_ThreeKeysHeightOne ==
    Cardinality(ModelKeys) = 3 =>
        /\ height(Self) = 1
        /\ root # None
        /\ \E lo, hi \in ModelKeys :
              /\ lo < heap[root].key /\ heap[root].key < hi
              /\ heap[root].left # None /\ heap[heap[root].left].key = lo
              /\ heap[root].right # None /\ heap[heap[root].right].key = hi

\* A removal from a map of four keys that left the keys 2, 3 and 4.
C28_Witness ==
    /\ op = "remove" /\ ret # NoneOpt
    /\ ModelKeys = {2, 3, 4}
    /\ height(Self) = 1
    /\ heap[root].key = 3

\* C29: after n ascending insertions of the keys 0, 1, ..., n - 1 into an empty map, with
\* n >= 6, the height h of the map satisfies 0 < h < n / 2 (integer division).
C29_AscendingStaysLow ==
    num_nodes >= 6 =>
        /\ ModelKeys = 0..(num_nodes - 1)
        /\ 0 < height(Self)
        /\ height(Self) < num_nodes \div 2

\* MaxAscending ascending insertions, which left a map of height 3 with the key 3 at its
\* root.
C29_Witness ==
    /\ op = "insert" /\ ret = NoneOpt
    /\ num_nodes = MaxAscending
    /\ height(Self) = 3
    /\ heap[root].key = 3

\* C30: in the Tree of tree.rs, after every insert and remove, the left and right subtree
\* heights of every node (0 for an absent child, the child's stored height + 1 for a
\* present one) differ by at most 1; so a tree of three keys, such as the one that the
\* inserts of 3, 2 and 1 build, has height 1.
C30_TreeBalanced ==
    /\ \A p \in Nodes :
          /\ SubtreeHeight(heap[p].left) - SubtreeHeight(heap[p].right) <= 1
          /\ SubtreeHeight(heap[p].right) - SubtreeHeight(heap[p].left) <= 1
    /\ Cardinality(ModelKeys) = 3 => Tree_height(Self) = 1

\* The map after insert_entry_at_vacant_pos has linked the new leaf in, before it
\* rebalances.
LeafLinked(t, key, value) ==
    WriteLink([t EXCEPT !.heap = create(t.heap, find_insert_pos(t, key).parent,
                                        key, value).heap],
              find_insert_pos(t, key).link_ptr,
              create(t.heap, find_insert_pos(t, key).parent, key, value).node_ptr)

\* The nodes at which a walk of rebalance_node from current up to the root rotates.
RECURSIVE RotatedOnWalk(_, _)
RotatedOnWalk(t, current) ==
    IF current = None THEN {}
    ELSE (IF rebalance_node(t, current).did_rebalance THEN {current} ELSE {})
         \cup RotatedOnWalk(rebalance_node(t, current).t, t.heap[current].parent)

\* The first node at which the walk rotates (None when it never does), and the map as the
\* walk finds it there.
RECURSIVE FirstRotation(_, _)
FirstRotation(t, current) ==
    IF current = None THEN [t |-> t, node |-> None]
    ELSE IF rebalance_node(t, current).did_rebalance THEN [t |-> t, node |-> current]
    ELSE FirstRotation(rebalance_node(t, current).t, t.heap[current].parent)

RECURSIVE StrictAncestors(_, _)
StrictAncestors(h, p) ==
    IF h[p].parent = None THEN {}
    ELSE {h[p].parent} \cup StrictAncestors(h, h[p].parent)

\* The maps that one single or one double rotation of node makes of t.
OneRotation(t, node) ==
    {rotate_left(t, node), rotate_right(t, node)}
    \cup (IF t.heap[node].left = None THEN {}
          ELSE {rotate_right(rotate_left(t, t.heap[node].left), node)})
    \cup (IF t.heap[node].right = None THEN {}
          ELSE {rotate_left(rotate_right(t, t.heap[node].right), node)})

LeafInsertRotatesOnce(key, value) ==
    LET linked == LeafLinked(Self, key, value)
        parent == find_insert_pos(Self, key).parent
        first == FirstRotation(linked, parent)
    IN  /\ Cardinality(RotatedOnWalk(linked, parent)) <= 1
        /\ root' = rebalance(linked, parent).root
        /\ heap' = rebalance(linked, parent).heap
        /\ first.node # None =>
              /\ \E r \in OneRotation(first.t, first.node) : root' = r.root /\ heap' = r.heap
              /\ \A a \in StrictAncestors(first.t.heap, first.node) :
                    /\ heap'[a].height = heap[a].height
                    /\ heap'[a].parent = heap[a].parent
                    /\ heap'[a].height = Max(SubtreeHeight(heap[a].left)', 
                                             SubtreeHeight(heap[a].right)')
                    /\ SubtreeHeight(heap[a].left)' <= SubtreeHeight(heap[a].right)' + 1
                    /\ SubtreeHeight(heap[a].right)' <= SubtreeHeight(heap[a].left)' + 1

\* C31: when insert adds a new leaf to a map that satisfies the invariants, a walk of
\* rebalance_node from the leaf's parent to the root rotates at most one ancestor, by one
\* single or one double rotation; rebalance_once, which stops right after that rotation,
\* leaves the map the full walk would leave, and every ancestor above the rotated subtree
\* keeps its stored height, which is correct, with a balance difference of at most 1.
C31_InsertRotatesOnce ==
    [][(op' = "insert" /\ ret' = NoneOpt) =>
          \E key \in DeepKeySet \ StoredKeys, value \in Vals :
              /\ <<key, value>> \in model'
              /\ LeafInsertRotatesOnce(key, value)]_vars

\* An insert of a new key that left six keys in a map of height 2 whose root is not the
\* parent of every other node: a map in which a leaf's rebalancing walk can rotate below
\* the root.
C31_Witness ==
    /\ op = "insert" /\ ret = NoneOpt
    /\ num_nodes = 6
    /\ height(Self) = 2
    /\ \E p \in Nodes : heap[p].height = 1 /\ heap[p].parent = root /\ Cardinality(Children(p)) = 2

\* The destroying walk over the nodes of heap h from start reads no field of a destroyed
\* node, destroys every node of h, each once, and each after the nodes of its two
\* subtrees.
WalkDestroysSafely(h, start) ==
    LET w == traverse(h, start, "destroy")
    IN  /\ w.stale = {}
        /\ NoRepeats(w.post)
        /\ Elements(w.post) = {a \in Addrs : IsLive(h, a)}
        /\ \A i \in DOMAIN w.post :
              \A q \in Subtree(h, h[w.post[i]].left) \cup Subtree(h, h[w.post[i]].right) :
                  \E j \in 1..(i - 1) : w.post[j] = q

\* C32: the post-order walk of clear() (which the drop of a map runs) and of the drop of
\* an owning iterator reads no field of a node after the post-order callback has destroyed
\* that node, comes to every node all the same, and destroys every node only after both
\* of its subtrees have been destroyed.
C32_NoReadAfterDestroy ==
    [][/\ op' = "clear" =>
              /\ WalkDestroysSafely(heap, root)
              /\ heap' = traverse(heap, root, "destroy").heap
       /\ op' = "into_iter_drop" =>
              /\ WalkDestroysSafely(heap, cursor.first)
              /\ heap' = traverse(heap, cursor.first, "destroy").heap]_vars

\* A drop of an owning iterator after two next() calls, whose walk started at a node that
\* is not the root and destroyed the four or more nodes that were left.
C32_Witness ==
    /\ op = "into_iter_drop"
    /\ ret.front >= 2
    /\ Len(ret.post) >= 4
    /\ ret.pre[1] # ret.post[Len(ret.post)]
    /\ \A a \in Addrs : ~IsLive(heap, a)

\* Where x stands in a sequence that holds it once.
Pos(seq, x) == CHOOSE i \in DOMAIN seq : seq[i] = x

BelowNode(p) == Subtree(heap, heap[p].left) \cup Subtree(heap, heap[p].right)

\* C33: traverse from the root of a map of n nodes ends, leaves the map as it is, and has
\* called each of the three callbacks n times, once for every node: the pre-order one for
\* a node before those for the nodes of its subtrees, the in-order one in ascending key
\* order, the post-order one for a node after those for the nodes of its subtrees, the
\* root's last.
C33_TraverseVisitsAllOnce ==
    op = "traverse" =>
        /\ Len(ret.pre) = num_nodes /\ Len(ret.ino) = num_nodes /\ Len(ret.post) = num_nodes
        /\ Elements(ret.pre) = Nodes /\ NoRepeats(ret.pre)
        /\ Elements(ret.ino) = Nodes /\ NoRepeats(ret.ino)
        /\ Elements(ret.post) = Nodes /\ NoRepeats(ret.post)
        /\ \A i, j \in DOMAIN ret.ino : i < j => heap[ret.ino[i]].key < heap[ret.ino[j]].key
        /\ \A p \in Nodes : \A q \in BelowNode(p) :
              /\ Pos(ret.pre, p) < Pos(ret.pre, q)
              /\ Pos(ret.post, q) < Pos(ret.post, p)
        /\ \A p \in Nodes :
              /\ \A q \in Subtree(heap, heap[p].left) : Pos(ret.ino, q) < Pos(ret.ino, p)
              /\ \A q \in Subtree(heap, heap[p].right) : Pos(ret.ino, p) < Pos(ret.ino, q)
        /\ root # None => ret.pre[1] = root /\ ret.post[num_nodes] = root
        /\ AllFive

\* A walk over a map of MaxOwnKey nodes and height 3.
C33_Witness ==
    /\ op = "traverse"
    /\ Len(ret.post) = MaxOwnKey
    /\ height(Self) = 3
    /\ ret.pre # ret.ino /\ ret.ino # ret.post

\* The nodes the owning iterator has not yielded, and what C34 says of them.
Remaining == {a \in Addrs : IsLive(heap, a)}

RemainingIsOneTree ==
    IF Remaining = {}
    THEN cursor.first = None /\ cursor.last = None
    ELSE /\ cursor.first \in Remaining /\ cursor.last \in Remaining
         /\ \E r \in Remaining :
               /\ \A a \in Remaining : heap[a].parent = None <=> a = r
               /\ Subtree(heap, r) = Remaining
               /\ BstOrderedIn(heap, r)
               /\ ParentConsistentIn(heap, r)
         /\ \A a \in Remaining : /\ heap[cursor.first].key <= heap[a].key
                                 /\ heap[a].key <= heap[cursor.last].key

\* C34: after every next() and next_back() of the owning iterator the nodes not yet
\* yielded are one binary search tree with consistent parent links and a parentless root,
\* first its smallest and last its largest node, both None exactly when no node is left;
\* every node that is left keeps its key, value and stored height, and is below the nodes
\* it was below before: nothing was rotated.
C34_EaterKeepsOneTree ==
    [][op' \in {"into_iter_next", "into_iter_next_back"} =>
          /\ RemainingIsOneTree'
          /\ (cursor'.first = None) = (Remaining' = {})
          /\ (cursor'.last = None) = (Remaining' = {})
          /\ Remaining' \subseteq Remaining
          /\ Cardinality(Remaining') = Cardinality(Remaining) - Len(ret')
          /\ \A a \in Remaining' :
                /\ heap'[a].key = heap[a].key
                /\ heap'[a].value = heap[a].value
                /\ heap'[a].height = heap[a].height
                /\ Subtree(heap', a) = Subtree(heap, a) \cap Remaining']_vars

\* A next_back() after two next() and one next_back(), which left three nodes whose root
\* still stores the height 3 that it had in the map of MaxOwnKey nodes.
C34_Witness ==
    /\ op = "into_iter_next_back" /\ ret # NoneOpt
    /\ cursor.kind = "into_iter"
    /\ Len(cursor.front) = 2 /\ Len(cursor.back) = 2
    /\ Cardinality(Remaining) >= 3
    /\ \E r \in Remaining : heap[r].parent = None /\ heap[r].height = 3

\* The calls of rebalance_node on a walk from current towards the root, which ends after
\* the first rotation when once holds: at every call the two subtree heights of the node
\* differ by at most 2, as the two debug assertions say, and after it the node that roots
\* the subtree stores the right height and is balanced.
RECURSIVE RebalanceNodeCallsOk(_, _, _)
RebalanceNodeCallsOk(t, current, once) ==
    IF current = None THEN TRUE
    ELSE /\ left_height(t.heap, current) <= right_height(t.heap, current) + 2
         /\ right_height(t.heap, current) <= left_height(t.heap, current) + 2
         /\ LET r == rebalance_node(t, current)
                top == IF r.did_rebalance THEN r.t.heap[current].parent ELSE current
            IN  /\ top # None
                /\ r.t.heap[top].height = Max(left_height(r.t.heap, top),
                                              right_height(r.t.heap, top))
                /\ left_height(r.t.heap, top) <= right_height(r.t.heap, top) + 1
                /\ right_height(r.t.heap, top) <= left_height(r.t.heap, top) + 1
                /\ r.did_rebalance =>
                      /\ top \in {t.heap[current].left, t.heap[current].right,
                                  IF t.heap[current].left = None THEN None
                                  ELSE t.heap[t.heap[current].left].right,
                                  IF t.heap[current].right = None THEN None
                                  ELSE t.heap[t.heap[current].right].left}
                      /\ r.t.heap[top].parent = t.heap[current].parent
                /\ \/ once /\ r.did_rebalance
                   \/ RebalanceNodeCallsOk(r.t, t.heap[current].parent, once)

\* C35: at every call of rebalance_node, on the walk of rebalance_once that an insert of a
\* new key starts at the parent of the new leaf and on the walk of rebalance that a
\* removal starts in unlink_node, the left and right subtree heights of the node differ by
\* at most 2, and when the call returns the node that roots the subtree stores the right
\* height and has a difference of at most 1.
C35_RebalanceNodeContract ==
    [][/\ (op' = "insert" /\ ret' = NoneOpt) =>
              \E key \in DeepKeySet \ StoredKeys, value \in Vals :
                  /\ <<key, value>> \in model'
                  /\ RebalanceNodeCallsOk(LeafLinked(Self, key, value),
                                          find_insert_pos(Self, key).parent, TRUE)
                  /\ heap' = rebalance_once(LeafLinked(Self, key, value),
                                            find_insert_pos(Self, key).parent).heap
       /\ (op' = "remove" /\ ret' # NoneOpt) =>
              \E key \in StoredKeys \ StoredKeys' :
                  LET links == unlink_node_links([Self EXCEPT !.num_nodes = @ - 1],
                                                 find(Self, key))
                  IN  /\ RebalanceNodeCallsOk(links.t, links.rebalance_from, FALSE)
                      /\ heap' = destroy(rebalance(links.t, links.rebalance_from).heap,
                                         find(Self, key)).heap]_vars

\* A removal that left a map of height 3 with seven or more keys, one of them in a node
\* with two children below the root: a removal whose walk of rebalance had ancestors to
\* come to.
C35_Witness ==
    /\ op = "remove" /\ ret # NoneOpt
    /\ num_nodes >= 7
    /\ height(Self) = 3
    /\ \E p \in Nodes \ {root} : Cardinality(Children(p)) = 2 /\ heap[p].height = 2

\* What a reset of the range [first, last] of the set t to the head key of the other side
\* does, for every range of t that is not empty and every key above its front.
ResetContract(t) ==
    \A first, last \in Subtree(t.heap, t.root) :
        \A key \in SetKeys :
            (t.heap[first].key <= t.heap[last].key /\ t.heap[first].key < key) =>
                LET r == reset_range_start_bound_included(t, NodeIter_new(first, last), key)
                    ahead == {p \in Subtree(t.heap, t.root) :
                                 key <= t.heap[p].key /\ t.heap[p].key <= t.heap[last].key}
                IN  IF ahead = {}
                    THEN r.first = None /\ r.last = None
                    ELSE /\ r.first \in ahead
                         /\ \A p \in ahead : t.heap[r.first].key <= t.heap[p].key
                         /\ t.heap[first].key < t.heap[r.first].key
                         /\ r.last = last

\* C36: a skip-ahead reset of a range that lags moves its front strictly forward, to the
\* first stored key >= the head of the other side, leaves its last node as it is, and
\* empties the range when no such key lies at or before the last node; so every next() of
\* Intersection and of Difference ends, and each of the two yields at most len() values of
\* its left operand.
C36_SkipAheadEnds ==
    /\ ResetContract(Self)
    /\ ResetContract(SecondMap)
    /\ op \in {"intersection", "difference"} =>
          /\ ~ret.panic
          /\ Len(ret.entries) <= len(Self)
          /\ Elements(ret.entries) \subseteq ModelKeys

\* An intersection of {1, 3} and {2, 3}: the left range lags with the head 1 and is reset
\* to 3, then the right range lags with the head 2 and is reset to 3, which is yielded.
C36_Witness ==
    /\ op = "intersection"
    /\ ModelKeys = {1, 3}
    /\ SecondKeys = {2, 3}
    /\ ret.entries = <<3>>

\* The keys of the tree behind a link in in-order, read off the left and right links.
RECURSIVE InOrderKeys(_, _, _)
InOrderKeys(h, link, depth) ==
    IF link = None \/ depth = 0 THEN <<>>
    ELSE InOrderKeys(h, h[link].left, depth - 1) \o <<h[link].key>>
         \o InOrderKeys(h, h[link].right, depth - 1)

\* What a rotation that made the map r of the map t may have changed: up is the child
\* promoted over node, moved the grandchild that changes sides.
RotationFrame(t, r, node, up, moved) ==
    /\ r.num_nodes = t.num_nodes
    /\ Subtree(r.heap, r.root) = Subtree(t.heap, t.root)
    /\ InOrderKeys(r.heap, r.root, Cardinality(Addrs)) =
           InOrderKeys(t.heap, t.root, Cardinality(Addrs))
    /\ \A a \in Addrs \ {node, up, moved, t.heap[node].parent} : r.heap[a] = t.heap[a]
    /\ moved # None => r.heap[moved] = [t.heap[moved] EXCEPT !.parent = node]
    /\ IF t.heap[node].parent = None
       THEN r.root = up
       ELSE /\ r.root = t.root
            /\ r.heap[t.heap[node].parent] =
                   [t.heap[t.heap[node].parent] EXCEPT
                       !.left = IF @ = node THEN up ELSE @,
                       !.right = IF t.heap[t.heap[node].parent].left # node /\ @ = node
                                 THEN up ELSE @]

RotateLeftOk(t, node) ==
    LET r == rotate_left(t, node)
        up == t.heap[node].right
    IN  IF up = None THEN r = t
        ELSE /\ RotationFrame(t, r, node, up, t.heap[up].left)
             /\ r.heap[node] =
                    [t.heap[node] EXCEPT
                        !.right = t.heap[up].left,
                        !.parent = up,
                        !.height = Max(SubtreeHeightIn(t.heap, t.heap[node].left),
                                       SubtreeHeightIn(t.heap, t.heap[up].left))]
             /\ r.heap[up] =
                    [t.heap[up] EXCEPT
                        !.left = node,
                        !.parent = t.heap[node].parent,
                        !.height = Max(r.heap[node].height + 1,
                                       SubtreeHeightIn(t.heap, t.heap[up].right))]

RotateRightOk(t, node) ==
    LET r == rotate_right(t, node)
        up == t.heap[node].left
    IN  IF up = None THEN r = t
        ELSE /\ RotationFrame(t, r, node, up, t.heap[up].right)
             /\ r.heap[node] =
                    [t.heap[node] EXCEPT
                        !.left = t.heap[up].right,
                        !.parent = up,
                        !.height = Max(SubtreeHeightIn(t.heap, t.heap[up].right),
                                       SubtreeHeightIn(t.heap, t.heap[node].right))]
             /\ r.heap[up] =
                    [t.heap[up] EXCEPT
                        !.right = node,
                        !.parent = t.heap[node].parent,
                        !.height = Max(SubtreeHeightIn(t.heap, t.heap[up].left),
                                       r.heap[node].height + 1)]

\* The rotations that rebalance_node makes on a walk from current towards the root, which
\* ends after the first rotated node when once holds.
RECURSIVE RotateCallsOk(_, _, _)
RotateCallsOk(t, current, once) ==
    IF current = None THEN TRUE
    ELSE /\ IF left_height(t.heap, current) > right_height(t.heap, current) + 1
            THEN IF right_height(t.heap, t.heap[current].left)
                        > left_height(t.heap, t.heap[current].left)
                 THEN /\ RotateLeftOk(t, t.heap[current].left)
                      /\ RotateRightOk(rotate_left(t, t.heap[current].left), current)
                 ELSE RotateRightOk(t, current)
            ELSE IF right_height(t.heap, current) > left_height(t.heap, current) + 1
            THEN IF left_height(t.heap, t.heap[current].right)
                        > right_height(t.heap, t.heap[current].right)
                 THEN /\ RotateRightOk(t, t.heap[current].right)
                      /\ RotateLeftOk(rotate_right(t, t.heap[current].right), current)
                 ELSE RotateLeftOk(t, current)
            ELSE TRUE
         /\ \/ once /\ rebalance_node(t, current).did_rebalance
            \/ RotateCallsOk(rebalance_node(t, current).t, t.heap[current].parent, once)

\* C37: rotate_left and rotate_right, on any node of any map and at every call that the
\* rebalancing of an insert or a removal makes, keep the nodes and their in-order keys,
\* change only the links of the rotated node, of the child promoted over it, of the
\* grandchild that changes sides and of the parent's slot (or the root link), store the
\* recomputed height in the demoted node and then in the promoted child, and leave every
\* other node as it is; on a node without the child to promote they change nothing.
C37_RotationFrame ==
    /\ [](\A p \in Nodes : RotateLeftOk(Self, p) /\ RotateRightOk(Self, p))
    /\ [][/\ (op' = "insert" /\ ret' = NoneOpt) =>
                 \E key \in DeepKeySet \ StoredKeys, value \in Vals :
                     /\ <<key, value>> \in model'
                     /\ RotateCallsOk(LeafLinked(Self, key, value),
                                      find_insert_pos(Self, key).parent, TRUE)
          /\ (op' = "remove" /\ ret' # NoneOpt) =>
                 \E key \in StoredKeys \ StoredKeys' :
                     RotateCallsOk(
                         unlink_node_links([Self EXCEPT !.num_nodes = @ - 1], find(Self, key)).t,
                         unlink_node_links([Self EXCEPT !.num_nodes = @ - 1],
                                           find(Self, key)).rebalance_from,
                         FALSE)]_vars

\* An insert of a new key that left a map of DeepKeys keys in which a node below the root
\* has a right child with a left child, and a node a left child with a right child: the
\* grandchildren that a rotation of these nodes moves to the other side.
C37_Witness ==
    /\ op = "insert" /\ ret = NoneOpt
    /\ num_nodes = DeepKeys
    /\ \E p \in Nodes \ {root} : heap[p].right # None /\ heap[heap[p].right].left # None
    /\ \E p \in Nodes : heap[p].left # None /\ heap[heap[p].left].right # None

\* The node without a parent above p, found along the parent links.
RECURSIVE TopOf(_, _, _)
TopOf(h, p, depth) ==
    IF h[p].parent = None \/ depth = 0 THEN p ELSE TopOf(h, h[p].parent, depth - 1)

\* The nodes a live link leads to: those of the map, and those of the tree that holds the
\* remaining range of the owning iterator.
Reachable ==
    Nodes \cup (IF cursor.kind = "into_iter" /\ cursor.first # None
                THEN Subtree(heap, TopOf(heap, cursor.first, Cardinality(Addrs)))
                ELSE {})

NodesAreTheLiveOnes ==
    /\ Reachable = Remaining
    /\ \A a \in Remaining : {heap[a].parent, heap[a].left, heap[a].right} \subseteq
                                Remaining \cup {None}
    /\ cursor.kind = "into_iter" =>
          /\ root = None
          /\ {cursor.first, cursor.last} \subseteq Remaining \cup {None}

\* C38: between the public operations the nodes created and not yet destroyed are the
\* nodes reachable from the root of the map, or from the remaining range of the owning
\* iterator, and no link of theirs leads to a destroyed node.  An insert of an absent key
\* creates one node and nothing else creates any; a removal of a stored key and a pop of
\* the owning iterator destroy the one live node whose entry they return, clear() and the
\* drop of the iterator every node that is left, and nothing else destroys any.
C38_NodesLiveIffReachable ==
    /\ []NodesAreTheLiveOnes
    /\ [][/\ op' = "insert" =>
                 /\ Remaining \subseteq Remaining'
                 /\ Cardinality(Remaining' \ Remaining) = IF ret' = NoneOpt THEN 1 ELSE 0
                 /\ Remaining' # Remaining => StoredKeys' # StoredKeys
          /\ op' \in {"remove", "into_iter_next", "into_iter_next_back"} =>
                 /\ Remaining' \subseteq Remaining
                 /\ Cardinality(Remaining \ Remaining') = Len(ret')
                 /\ \A a \in Remaining \ Remaining' :
                        ret' = IF op' = "remove" THEN Some(heap[a].value)
                               ELSE Some(<<heap[a].key, heap[a].value>>)
          /\ op' \in {"clear", "into_iter_drop"} => Remaining' = {}
          /\ op' = "into_iter" => Remaining' = Remaining /\ heap' = heap]_vars

\* A next_back() of an owning iterator over a map of MaxOwnKey keys that had yielded from
\* both ends: the nodes of the entries not yet yielded are left, under no root of a map.
C38_Witness ==
    /\ op = "into_iter_next_back" /\ ret # NoneOpt
    /\ Len(cursor.front) >= 1
    /\ Cardinality(model) = MaxOwnKey
    /\ root = None
    /\ Cardinality(Remaining) = MaxOwnKey - Len(cursor.front) - Len(cursor.back)
    /\ Cardinality(Remaining) >= 2

====
